---- MODULE Spec2Model ----
(***************************************************************************)
(* Progress tracking of a timely-dataflow subgraph scope                   *)
(* (src/src/progress/subgraph.rs): summaries, pointstamp accounting and    *)
(* the Scope interface the subgraph offers to its parent.                  *)
(*                                                                         *)
(* Rust vectors indexed by a port or child number are functions over       *)
(* 0..n-1; vectors that are only iterated (edge lists, summary lists,      *)
(* logs) are sequences.                                                    *)
(***************************************************************************)
EXTENDS Integers, Sequences, FiniteSets, TLC

(***************************************************************************)
(* Bounds of the model.                                                    *)
(***************************************************************************)
\* largest outer coordinate of a time the environment or a child introduces
MaxOuter == 1
\* largest inner coordinate a child produces at (the loop's upper limit)
MaxInner == 1
\* messages the environment delivers through the graph inputs
MaxIngress == 1
\* messages a child may send while holding a capability
MaxSends == 1
\* pulls in which a child with nothing pending still answers active = true
MaxSpins == 1
\* how many workers run the subgraph side by side
MaxWorkers == 2
\* how many times an ingress nub passes messages in, with several workers
MaxCastIngress == 2
\* how many messages an ingress nub passes in as a batch, with several
\* workers
MaxBatch == 3
\* largest count a MutableAntichain holds for a time before it is updated
MaxCount == 2
\* largest coordinate of the summaries and times the laws of Summary are
\* tried on
MaxCoord == 2

(***************************************************************************)
(* Vectors over 0..n-1.                                                    *)
(***************************************************************************)
VecLen(v) == Cardinality(DOMAIN v)

VecNew(n, x) == [k \in 0..(n - 1) |-> x]

VecPush(v, x) == [k \in 0..VecLen(v) |-> IF k < VecLen(v) THEN v[k] ELSE x]

\* the elements of a finite set, in some fixed order
RECURSIVE SetToSeq(_)
SetToSeq(S) ==
    IF S = {} THEN <<>>
    ELSE LET x == CHOOSE y \in S : TRUE IN <<x>> \o SetToSeq(S \ {x})

(***************************************************************************)
(* Timestamps (TOuter, TInner) and their summaries.                        *)
(***************************************************************************)
\* Default::default() of an unsigned coordinate or iteration count
DefaultValue == 0

\* PartialOrd of the tuple (TOuter, TInner): lexicographic
TimeLeq(a, b) == a[1] < b[1] \/ (a[1] = b[1] /\ a[2] <= b[2])

\* the outer coordinate of a time
OuterOf(time) == time[1]

\* PathSummary of an unsigned coordinate: a count of added steps
CoordResultsIn(s, t) == t + s

CoordFollowedBy(s1, s2) == s1 + s2

CoordLeq(a, b) == a <= b

Local(t) == [tag |-> "Local", outer |-> DefaultValue, inner |-> t]

Outer(s, t) == [tag |-> "Outer", outer |-> s, inner |-> t]

\* Summary::default
DefaultSummary == Local(DefaultValue)

\* Summary::partial_cmp, as "self <= other"
SummaryLeq(a, b) ==
    CASE a.tag = "Local" /\ b.tag = "Local" -> CoordLeq(a.inner, b.inner)
      [] a.tag = "Local" /\ b.tag = "Outer" -> TRUE
      [] a.tag = "Outer" /\ b.tag = "Outer" ->
            a.outer < b.outer \/ (a.outer = b.outer /\ a.inner <= b.inner)
      [] OTHER -> FALSE

\* a results_in whose Outer case goes on from the inner coordinate of the time
ResultsInKeepInner(s, time) ==
    IF s.tag = "Local"
    THEN <<time[1], CoordResultsIn(s.inner, time[2])>>
    ELSE <<CoordResultsIn(s.outer, time[1]), CoordResultsIn(s.inner, time[2])>>

\* Summary::results_in
ResultsIn(s, time) ==
    IF s.tag = "Local"
    THEN <<time[1], CoordResultsIn(s.inner, time[2])>>
    ELSE <<CoordResultsIn(s.outer, time[1]), CoordResultsIn(s.inner, DefaultValue)>>

\* a followed_by that adds the iterations of a Local to the Outer after it
FollowedByCounting(a, b) ==
    CASE a.tag = "Local" /\ b.tag = "Local" -> Local(CoordFollowedBy(a.inner, b.inner))
      [] a.tag = "Local" /\ b.tag = "Outer" ->
            Outer(b.outer, CoordFollowedBy(a.inner, b.inner))
      [] a.tag = "Outer" /\ b.tag = "Local" -> Outer(a.outer, CoordFollowedBy(a.inner, b.inner))
      [] OTHER -> Outer(CoordFollowedBy(a.outer, b.outer), b.inner)

\* Summary::followed_by
FollowedBy(a, b) ==
    CASE a.tag = "Local" /\ b.tag = "Local" -> Local(CoordFollowedBy(a.inner, b.inner))
      [] a.tag = "Local" /\ b.tag = "Outer" -> b
      [] a.tag = "Outer" /\ b.tag = "Local" -> Outer(a.outer, CoordFollowedBy(a.inner, b.inner))
      [] OTHER -> Outer(CoordFollowedBy(a.outer, b.outer), b.inner)

(***************************************************************************)
(* Source and Target: the identities of ports.                             *)
(***************************************************************************)
GraphInput(u) == [kind |-> "GraphInput", scope |-> 0, port |-> u]

ScopeOutput(s, p) == [kind |-> "ScopeOutput", scope |-> s, port |-> p]

GraphOutput(u) == [kind |-> "GraphOutput", scope |-> 0, port |-> u]

ScopeInput(s, p) == [kind |-> "ScopeInput", scope |-> s, port |-> p]

(***************************************************************************)
(* CountMap<T>: a map T -> i64 that keeps no zero entry.                   *)
(***************************************************************************)
CountMapNew == <<>>

CountMapGet(cm, t) == IF t \in DOMAIN cm THEN cm[t] ELSE 0

CountMapUpdate(cm, t, d) ==
    LET new == CountMapGet(cm, t) + d
    IN  IF new = 0
        THEN [k \in (DOMAIN cm) \ {t} |-> cm[k]]
        ELSE [k \in (DOMAIN cm) \cup {t} |-> IF k = t THEN new ELSE cm[k]]

\* cm with every entry of delta added
CountMapAdd(cm, delta) ==
    LET keys == {k \in (DOMAIN cm) \cup (DOMAIN delta) :
                    CountMapGet(cm, k) + CountMapGet(delta, k) # 0}
    IN  [k \in keys |-> CountMapGet(cm, k) + CountMapGet(delta, k)]

\* every entry (t, v) of cm moved to (F(t), sign * v) and summed
CountMapMap(cm, F(_), sign) ==
    LET keys == {F(t) : t \in DOMAIN cm}
        val(k) == LET S == {t \in DOMAIN cm : F(t) = k}
                      RECURSIVE Sum(_)
                      Sum(R) == IF R = {} THEN 0
                                ELSE LET x == CHOOSE y \in R : TRUE
                                     IN  cm[x] + Sum(R \ {x})
                  IN  sign * Sum(S)
    IN  [k \in {k \in keys : val(k) # 0} |-> val(k)]

(***************************************************************************)
(* Antichain<T>: the minimal elements inserted so far.                     *)
(***************************************************************************)
AntichainNew == {}

\* Antichain::insert: [added, elements]
AntichainInsert(Leq(_, _), ac, x) ==
    IF \E e \in ac : Leq(e, x)
    THEN [added |-> FALSE, elements |-> ac]
    ELSE [added |-> TRUE, elements |-> {e \in ac : ~Leq(x, e)} \cup {x}]

\* an insert into entry k that answers true even for a summary it does not keep
AntichainStoredEager(vector, k, summary) ==
    [added  |-> TRUE,
     vector |-> [vector EXCEPT ![k].antichain =
                    AntichainInsert(SummaryLeq, @, summary).elements]]

\* `return antichain.insert(summary)` on entry k of a summary list
AntichainStored(vector, k, summary) ==
    [added  |-> AntichainInsert(SummaryLeq, vector[k].antichain, summary).added,
     vector |-> [vector EXCEPT ![k].antichain =
                    AntichainInsert(SummaryLeq, @, summary).elements]]

(***************************************************************************)
(* MutableAntichain<T>: counted occurrences and the frontier they expose.  *)
(***************************************************************************)
MutableAntichainNew == [occurrences |-> CountMapNew]

\* the frontier of a MutableAntichain under the order Leq of its times
ElementsBy(Leq(_, _), ma) ==
    LET held == {t \in DOMAIN ma.occurrences : ma.occurrences[t] > 0}
    IN  {t \in held : \A u \in held : Leq(u, t) => u = t}

\* the change between two frontiers, as a CountMap of -1 / +1
FrontierChange(old, new) ==
    [t \in (old \ new) \cup (new \ old) |-> IF t \in new THEN 1 ELSE -1]

\* MutableAntichain::update_into_cm without its output map:
\* [ma, changes, fatal]
UpdateIntoBy(Leq(_, _), ma, delta) ==
    LET occ == CountMapAdd(ma.occurrences, delta)
        new == [occurrences |-> occ]
    IN  [ma      |-> new,
         changes |-> FrontierChange(ElementsBy(Leq, ma), ElementsBy(Leq, new)),
         fatal   |-> \E t \in DOMAIN occ : occ[t] < 0]

\* every time held with a positive count, minimal or not
ElementsHeld(ma) == {t \in DOMAIN ma.occurrences : ma.occurrences[t] > 0}

\* MutableAntichain<(TOuter, TInner)>::elements
Elements(ma) == ElementsBy(TimeLeq, ma)

\* MutableAntichain<(TOuter, TInner)>::update_into_cm
UpdateInto(ma, delta) == UpdateIntoBy(TimeLeq, ma, delta)

\* MutableAntichain<(TOuter, TInner)>::update_and, the calls of its action
\* summed in a CountMap
UpdateAnd(ma, t, d) == UpdateInto(ma, CountMapUpdate(CountMapNew, t, d))

\* MutableAntichain<TOuter>::elements
OuterElements(ma) == ElementsBy(CoordLeq, ma)

\* MutableAntichain<TOuter>::update_into_cm
OuterUpdateInto(ma, delta) == UpdateIntoBy(CoordLeq, ma, delta)

(***************************************************************************)
(* Folds, for the loops of the code, and the sequencing of its statements. *)
(* Each step is made a value before the next one takes it.                 *)
(***************************************************************************)
\* F applied to the value of x
Then(x, F(_)) == CHOOSE r \in {F(v) : v \in {x}} : TRUE

\* the next statement of a call that a fatal error may have ended: F is
\* applied to x unless x.fatal
Unfailed(x, F(_)) == CHOOSE r \in {IF v.fatal THEN v ELSE F(v) : v \in {x}} : TRUE

RECURSIVE FoldSeq(_, _, _)
FoldSeq(Op(_, _), acc, seq) ==
    CHOOSE r \in {IF s = <<>> THEN a ELSE FoldSeq(Op, Op(a, Head(s)), Tail(s)) :
                     a \in {acc}, s \in {seq}} : TRUE

\* for k in (0..n)
RECURSIVE FoldRange(_, _, _, _)
FoldRange(Op(_, _), acc, k, n) ==
    CHOOSE r \in {IF k >= m THEN a ELSE FoldRange(Op, Op(a, k), k + 1, m) :
                     a \in {acc}, m \in {n}} : TRUE

FoldSet(Op(_, _), acc, S) == FoldSeq(Op, acc, SetToSeq(S))

(***************************************************************************)
(* The child scopes: what a boxed Scope answers to inputs(), outputs(),    *)
(* notify_me() and get_internal_summary().                                 *)
(***************************************************************************)
ScopeNames == {"unary", "input", "iterate", "sink", "relay", "nested"}

Scope(name) ==
    CASE name = "unary" ->
            [name |-> name, inputs |-> 1, outputs |-> 1, notify |-> TRUE,
             summary |-> VecNew(1, VecNew(1, {DefaultSummary})),
             work |-> VecNew(1, CountMapNew)]
      [] name = "input" ->
            [name |-> name, inputs |-> 0, outputs |-> 1, notify |-> FALSE,
             summary |-> VecNew(0, VecNew(1, {})),
             work |-> VecNew(1, CountMapUpdate(CountMapNew, <<DefaultValue, DefaultValue>>, 1))]
      [] name = "iterate" ->
            [name |-> name, inputs |-> 1, outputs |-> 1, notify |-> TRUE,
             summary |-> VecNew(1, VecNew(1, {Local(1)})),
             work |-> VecNew(1, CountMapUpdate(CountMapNew, <<DefaultValue, DefaultValue>>, 1))]
      [] name = "sink" ->
            [name |-> name, inputs |-> 1, outputs |-> 0, notify |-> TRUE,
             summary |-> VecNew(1, VecNew(0, {})),
             work |-> VecNew(0, CountMapNew)]
      [] name = "relay" ->
            [name |-> name, inputs |-> 1, outputs |-> 1, notify |-> FALSE,
             summary |-> VecNew(1, VecNew(1, {Local(1)})),
             work |-> VecNew(1, CountMapNew)]
      [] name = "nested" ->
            [name |-> name, inputs |-> 1, outputs |-> 1, notify |-> TRUE,
             summary |-> VecNew(1, VecNew(1, {Outer(1, DefaultValue)})),
             work |-> VecNew(1, CountMapNew)]

(***************************************************************************)
(* ScopeWrapper                                                            *)
(***************************************************************************)
\* ScopeWrapper::new
ScopeWrapperNew(scope, index) ==
    [scope   |-> scope.name,
     index   |-> index,
     inputs  |-> scope.inputs,
     outputs |-> scope.outputs,
     edges   |-> VecNew(scope.outputs, <<>>),
     notify  |-> scope.notify,
     summary |-> scope.summary,
     guarantees           |-> VecNew(scope.inputs, MutableAntichainNew),
     capabilities         |-> [o \in 0..(scope.outputs - 1) |->
                                  UpdateInto(MutableAntichainNew, scope.work[o]).ma],
     outstanding_messages |-> VecNew(scope.inputs, MutableAntichainNew),
     internal_progress    |-> VecNew(scope.outputs, CountMapNew),
     consumed_messages    |-> VecNew(scope.inputs, CountMapNew),
     produced_messages    |-> VecNew(scope.outputs, CountMapNew),
     guarantee_changes    |-> VecNew(scope.inputs, CountMapNew)]

\* ScopeWrapper::add_edge
AddEdge(child, output, target) ==
    [child EXCEPT !.edges[output] = Append(@, target)]

(***************************************************************************)
(* PointstampCounter                                                       *)
(***************************************************************************)
PointstampCounterNew ==
    [source_counts |-> <<>>, target_counts |-> <<>>, input_counts |-> <<>>,
     target_pushed |-> <<>>, output_pushed |-> <<>>]

\* PointstampCounter::update_target with a whole CountMap of updates
UpdateTarget(ps, target, changes) ==
    IF target.kind = "ScopeInput"
    THEN [ps EXCEPT !.target_counts[target.scope][target.port] = CountMapAdd(@, changes)]
    ELSE ps

\* an update_source that keeps only the changes of the last call
UpdateSourceLast(ps, source, changes) ==
    IF source.kind = "ScopeOutput"
    THEN [ps EXCEPT !.source_counts[source.scope][source.port] = changes]
    ELSE [ps EXCEPT !.input_counts[source.port] = changes]

\* PointstampCounter::update_source with a whole CountMap of updates
UpdateSource(ps, source, changes) ==
    IF source.kind = "ScopeOutput"
    THEN [ps EXCEPT !.source_counts[source.scope][source.port] = CountMapAdd(@, changes)]
    ELSE [ps EXCEPT !.input_counts[source.port] = CountMapAdd(@, changes)]

\* a clearing that leaves target_pushed alone
ClearOutputPushed(ps) ==
    [ps EXCEPT !.output_pushed = [o \in DOMAIN @ |-> CountMapNew]]

\* a clear_pushed that leaves output_pushed as it is
ClearTargetPushed(ps) ==
    [ps EXCEPT !.target_pushed = [s \in DOMAIN @ |-> [i \in DOMAIN @[s] |-> CountMapNew]]]

\* PointstampCounter::clear_pushed
ClearPushed(ps) ==
    [ps EXCEPT !.target_pushed = [s \in DOMAIN @ |-> [i \in DOMAIN @[s] |-> CountMapNew]],
               !.output_pushed = [o \in DOMAIN @ |-> CountMapNew]]

(***************************************************************************)
(* Progcaster: per sending worker, the batches of the two logs that have   *)
(* arrived and have not been taken yet.                                    *)
(***************************************************************************)
\* Progcaster::new over a communicator that reaches `peers`
ProgcasterNew(peers) == [v \in peers |-> <<>>]

(***************************************************************************)
(* Subgraph                                                                *)
(***************************************************************************)
\* Subgraph::new_from
SubgraphNewFrom ==
    [default_summary     |-> DefaultSummary,
     inputs              |-> 0,
     outputs             |-> 0,
     input_edges         |-> <<>>,
     external_summaries  |-> <<>>,
     source_summaries    |-> <<>>,
     target_summaries    |-> <<>>,
     input_summaries     |-> <<>>,
     external_capability |-> <<>>,
     external_guarantee  |-> <<>>,
     children            |-> <<>>,
     input_messages      |-> <<>>,
     pointstamps         |-> PointstampCounterNew,
     pointstamp_messages_cm |-> CountMapNew,
     pointstamp_internal_cm |-> CountMapNew,
     pointstamp_messages |-> <<>>,
     pointstamp_internal |-> <<>>,
     progcaster          |-> ProgcasterNew({0})]

\* Subgraph::new_input
SubgraphNewInput(g) ==
    [g EXCEPT !.inputs = @ + 1,
              !.external_guarantee = VecPush(@, MutableAntichainNew),
              !.input_messages = VecPush(@, CountMapNew)]

\* Subgraph::new_output
SubgraphNewOutput(g) ==
    [g EXCEPT !.outputs = @ + 1,
              !.external_capability = VecPush(@, MutableAntichainNew)]

\* Graph::add_boxed_scope
SubgraphAddBoxedScope(g, scope) ==
    [g EXCEPT !.children = VecPush(@, ScopeWrapperNew(scope, VecLen(g.children)))]

\* the `while input_edges.len() < input + 1` loop of connect
RECURSIVE GrowInputEdges(_, _)
GrowInputEdges(input_edges, input) ==
    IF VecLen(input_edges) < input + 1
    THEN GrowInputEdges(VecPush(input_edges, <<>>), input)
    ELSE input_edges

\* Subgraph::connect
SubgraphConnect(g, source, target) ==
    IF source.kind = "ScopeOutput"
    THEN [g EXCEPT !.children[source.scope] = AddEdge(@, source.port, target)]
    ELSE [g EXCEPT !.input_edges =
                [GrowInputEdges(@, source.port) EXCEPT ![source.port] = Append(@, target)]]

(***************************************************************************)
(* set_summaries                                                           *)
(***************************************************************************)
\* try_to_add_summary: [added, vector]
TryToAddSummary(vector, target, summary) ==
    LET hits == {k \in 1..Len(vector) : vector[k].target = target}
    IN  IF hits = {}
        THEN [added |-> TRUE,
              vector |-> Append(vector, [target |-> target, antichain |-> {summary}])]
        ELSE AntichainStored(vector, CHOOSE k \in hits : \A j \in hits : k <= j, summary)

\* Subgraph::target_to_sources
TargetToSources(g, target) ==
    IF target.kind = "GraphOutput"
    THEN FoldRange(LAMBDA acc, input :
                       acc \o SetToSeq({<<GraphInput(input), Outer(y, DefaultValue)>> :
                                           y \in g.external_summaries[target.port][input]}),
                   <<>>, 0, g.inputs)
    ELSE FoldRange(LAMBDA acc, i :
                       acc \o SetToSeq({<<ScopeOutput(target.scope, i), y>> :
                                           y \in g.children[target.scope].summary[target.port][i]}),
                   <<>>, 0, g.children[target.scope].outputs)

\* a filter that lets no child input through
NotifiesNever(g, target) == target.kind # "ScopeInput"

\* a filter that lets every target through
NotifiesAlways(g, target) == TRUE

\* the filter of the seeding loops: a child input is a target only if it notifies
Notifies(g, target) ==
    IF target.kind = "ScopeInput" THEN g.children[target.scope].notify ELSE TRUE

\* a seeding that goes through try_to_add_summary: one entry per target
SeedSummariesOnce(g, edges) ==
    FoldSeq(LAMBDA acc, target :
                IF Notifies(g, target)
                THEN TryToAddSummary(acc, target, g.default_summary).vector
                ELSE acc,
            <<>>, edges)

\* the summary list an edge list seeds
SeedSummaries(g, edges) ==
    FoldSeq(LAMBDA acc, target :
                IF Notifies(g, target)
                THEN Append(acc, [target |-> target, antichain |-> {g.default_summary}])
                ELSE acc,
            <<>>, edges)

\* the first two loops of set_summaries
SeedAllSummaries(g) ==
    [g EXCEPT !.source_summaries =
                  [scope \in DOMAIN g.children |->
                      [output \in 0..(g.children[scope].outputs - 1) |->
                          SeedSummaries(g, g.children[scope].edges[output])]],
              !.input_summaries =
                  [input \in 0..(g.inputs - 1) |-> SeedSummaries(g, g.input_edges[input])]]

\* the three tables of summary lists; `slot` names one list: its table and
\* its indices
SummaryList(g, slot) ==
    CASE slot.table = "source_summaries" -> g.source_summaries[slot.scope][slot.port]
      [] slot.table = "input_summaries"  -> g.input_summaries[slot.port]
      [] slot.table = "target_summaries" -> g.target_summaries[slot.scope][slot.port]

\* `if try_to_add_summary(&mut list, ..) { done = false; }`, for the result r
\* of the call; st is [g, done]
NoteAdded(st, slot, r) ==
    [g    |-> CASE slot.table = "source_summaries" ->
                      [st.g EXCEPT !.source_summaries[slot.scope][slot.port] = r.vector]
                [] slot.table = "input_summaries" ->
                      [st.g EXCEPT !.input_summaries[slot.port] = r.vector]
                [] slot.table = "target_summaries" ->
                      [st.g EXCEPT !.target_summaries[slot.scope][slot.port] = r.vector],
     done |-> st.done /\ ~r.added]

\* the body of the innermost loops of set_summaries for one edge target:
\* every summary of every scope output the target leads to, followed by what
\* that output reaches, is offered to the list at `slot`
ExpandTarget(st, slot, target) ==
    FoldSeq(LAMBDA acc, next :
                IF next[1].kind = "ScopeOutput"
                THEN FoldSeq(LAMBDA acc2, entry :
                                 FoldSet(LAMBDA acc3, summary :
                                             NoteAdded(acc3, slot,
                                                 TryToAddSummary(SummaryList(acc3.g, slot),
                                                                 entry.target,
                                                                 FollowedBy(next[2], summary))),
                                         acc2, entry.antichain),
                             acc, acc.g.source_summaries[next[1].scope][next[1].port])
                ELSE acc,
            st, TargetToSources(st.g, target))

\* one round of the `while !done` loop, from `done = true` on; st is [g, done]
SummaryRound(st) ==
    FoldRange(LAMBDA acc, input :
                  FoldSeq(LAMBDA acc2, target :
                              ExpandTarget(acc2, [table |-> "input_summaries", port |-> input],
                                           target),
                          acc, st.g.input_edges[input]),
              FoldRange(LAMBDA acc, scope :
                            FoldRange(LAMBDA acc2, output :
                                          FoldSeq(LAMBDA acc3, target :
                                                      ExpandTarget(acc3,
                                                          [table |-> "source_summaries",
                                                           scope |-> scope, port |-> output],
                                                          target),
                                                  acc2, st.g.children[scope].edges[output]),
                                      acc, 0, st.g.children[scope].outputs),
                        [g |-> st.g, done |-> TRUE], 0, VecLen(st.g.children)),
              0, st.g.inputs)

\* a loop that stops after its first round
SummaryOnce(st) == SummaryRound(st).g

\* the `while !done` loop
RECURSIVE SummaryFixpoint(_)
SummaryFixpoint(st) ==
    IF st.done THEN st.g ELSE Then(SummaryRound(st), SummaryFixpoint)

\* the last loop of set_summaries
PopulateTargetSummaries(g) ==
    FoldRange(LAMBDA acc, scope :
                  FoldRange(LAMBDA acc2, input :
                                ExpandTarget(
                                    [acc2 EXCEPT !.g.target_summaries[scope][input] =
                                        TryToAddSummary(<<>>, ScopeInput(scope, input),
                                                        DefaultSummary).vector],
                                    [table |-> "target_summaries", scope |-> scope, port |-> input],
                                    ScopeInput(scope, input)),
                            acc, 0, g.children[scope].inputs),
              [g |-> g, done |-> TRUE], 0, VecLen(g.children)).g

\* Subgraph::set_summaries
SetSummaries(g) ==
    PopulateTargetSummaries(SummaryFixpoint([g |-> SeedAllSummaries(g), done |-> FALSE]))

(***************************************************************************)
(* push_pointstamps_to_targets                                             *)
(***************************************************************************)
\* a drain that forgets the graph outputs: only child inputs are updated
PushCountsToScopes(ps, counts, summaries) ==
    FoldSet(LAMBDA acc, time :
                FoldSeq(LAMBDA acc2, entry :
                            FoldSet(LAMBDA acc3, summary :
                                        IF entry.target.kind = "ScopeInput"
                                        THEN [acc3 EXCEPT !.target_pushed[entry.target.scope][entry.target.port] =
                                                 CountMapUpdate(@, ResultsIn(summary, time), counts[time])]
                                        ELSE acc3,
                                    acc2, entry.antichain),
                        acc, summaries),
            ps, DOMAIN counts)

\* the drain of one counts map through one summary list
PushCounts(ps, counts, summaries) ==
    FoldSet(LAMBDA acc, time :
                FoldSeq(LAMBDA acc2, entry :
                            FoldSet(LAMBDA acc3, summary :
                                        IF entry.target.kind = "ScopeInput"
                                        THEN [acc3 EXCEPT !.target_pushed[entry.target.scope][entry.target.port] =
                                                 CountMapUpdate(@, ResultsIn(summary, time), counts[time])]
                                        ELSE [acc3 EXCEPT !.output_pushed[entry.target.port] =
                                                 CountMapUpdate(@, ResultsIn(summary, time), counts[time])],
                                    acc2, entry.antichain),
                        acc, summaries),
            ps, DOMAIN counts)

\* Subgraph::push_pointstamps_to_targets
PushPointstampsToTargets(g) ==
    LET FromChild(ps, index) ==
            LET a == FoldRange(LAMBDA acc, input :
                                   [PushCounts(acc, acc.target_counts[index][input],
                                               g.target_summaries[index][input])
                                       EXCEPT !.target_counts[index][input] = CountMapNew],
                               ps, 0, VecLen(ps.target_counts[index]))
            IN  FoldRange(LAMBDA acc, output :
                              [PushCounts(acc, acc.source_counts[index][output],
                                          g.source_summaries[index][output])
                                  EXCEPT !.source_counts[index][output] = CountMapNew],
                          a, 0, VecLen(ps.source_counts[index]))
        children == FoldRange(FromChild, g.pointstamps, 0, VecLen(g.children))
    IN  [g EXCEPT !.pointstamps =
            FoldRange(LAMBDA acc, input :
                          [PushCounts(acc, acc.input_counts[input], g.input_summaries[input])
                              EXCEPT !.input_counts[input] = CountMapNew],
                      children, 0, g.inputs)]

(***************************************************************************)
(* ScopeWrapper::push_pointstamps and pull_pointstamps                     *)
(***************************************************************************)
\* guarantees[input_port].update_into_cm(.., &mut guarantee_changes[input_port])
\* for the result r of the update; acc is [child, fatal]
Guaranteed(acc, input_port, r) ==
    [child |-> [acc.child EXCEPT !.guarantees[input_port] = r.ma,
                                 !.guarantee_changes[input_port] = CountMapAdd(@, r.changes)],
     fatal |-> acc.fatal \/ r.fatal]

\* the loop `for input_port: guarantees[input_port].update_into_cm(..)`:
\* [child, fatal]
UpdateGuarantees(child, progress) ==
    FoldRange(LAMBDA acc, input_port :
                  Guaranteed(acc, input_port,
                             UpdateInto(acc.child.guarantees[input_port], progress[input_port])),
              [child |-> child, fatal |-> FALSE], 0, child.inputs)

\* an end of push_pointstamps that calls the scope whether or not a
\* guarantee has changed
PushChangesAlways(r) ==
    [child   |-> [r.child EXCEPT !.guarantee_changes =
                     [input_port \in DOMAIN @ |-> CountMapNew]],
     pushed  |-> TRUE,
     changes |-> r.child.guarantee_changes,
     fatal   |-> r.fatal]

\* the end of push_pointstamps: the scope is pushed the changes, if any, and
\* they are cleared. r is [child, fatal]
PushChanges(r) ==
    LET any == \E input_port \in DOMAIN r.child.guarantee_changes :
                   r.child.guarantee_changes[input_port] # CountMapNew
    IN  [child   |-> IF any
                     THEN [r.child EXCEPT !.guarantee_changes =
                              [input_port \in DOMAIN @ |-> CountMapNew]]
                     ELSE r.child,
         pushed  |-> any,
         changes |-> r.child.guarantee_changes,
         fatal   |-> r.fatal]

\* a push_pointstamps that moves the guarantees but never calls the scope
PushPointstampsQuietly(child, external_progress) ==
    IF child.notify
    THEN [child   |-> UpdateGuarantees(child, external_progress).child,
          pushed  |-> FALSE,
          changes |-> child.guarantee_changes,
          fatal   |-> UpdateGuarantees(child, external_progress).fatal]
    ELSE [child |-> child, pushed |-> FALSE, changes |-> child.guarantee_changes,
          fatal |-> FALSE]

\* ScopeWrapper::push_pointstamps: [child, pushed, changes, fatal]; `pushed`
\* tells whether scope.push_external_progress was called, with `changes`
PushPointstamps(child, external_progress) ==
    IF child.notify
    THEN Then(UpdateGuarantees(child, external_progress), PushChanges)
    ELSE [child |-> child, pushed |-> FALSE, changes |-> child.guarantee_changes,
          fatal |-> FALSE]

\* the output_action closure pull_internal_progress hands to pull_pointstamps
OutputAction(st, out, time, delta) ==
    [st EXCEPT !.messages_produced[out] = CountMapUpdate(@, OuterOf(time), delta)]

\* a drain that follows only the first edge of the output
DrainProducedFirstEdge(st, index, output, produced) ==
    FoldSet(LAMBDA acc, time :
                FoldSeq(LAMBDA acc2, target :
                            IF target.kind = "ScopeInput"
                            THEN [acc2 EXCEPT !.g.pointstamp_messages =
                                     Append(@, <<target.scope, target.port, time, produced[time]>>)]
                            ELSE OutputAction(acc2, target.port, time, produced[time]),
                        acc, SubSeq(st.g.children[index].edges[output], 1, 1)),
            st, DOMAIN produced)

\* the `while let Some((time, delta)) = produced_messages[output].pop()` loop
DrainProduced(st, index, output, produced) ==
    FoldSet(LAMBDA acc, time :
                FoldSeq(LAMBDA acc2, target :
                            IF target.kind = "ScopeInput"
                            THEN [acc2 EXCEPT !.g.pointstamp_messages =
                                     Append(@, <<target.scope, target.port, time, produced[time]>>)]
                            ELSE OutputAction(acc2, target.port, time, produced[time]),
                        acc, st.g.children[index].edges[output]),
            st, DOMAIN produced)

\* scope.pull_internal_progress(&mut internal_progress, &mut consumed_messages,
\* &mut produced_messages) has written its answer to the three buffers of
\* the wrapper
Answered(child, report) ==
    [child EXCEPT !.internal_progress = report.internal_progress,
                  !.consumed_messages = report.consumed_messages,
                  !.produced_messages = report.produced_messages]

\* the body of `for output`: the two buffers of the output are popped until
\* they are empty, the produced messages routed along the edges and the
\* internal progress logged under the child's index
DrainOutput(st, index, output) ==
    Then(Then(st,
         LAMBDA v : DrainProduced(v, index, output,
                                  v.g.children[index].produced_messages[output])),
         LAMBDA v : [FoldSet(LAMBDA acc, time :
                                 [acc EXCEPT !.g.pointstamp_internal =
                                     Append(@, <<acc.g.children[index].index, output, time,
                                                 v.g.children[index].internal_progress[output][time]>>)],
                             v, DOMAIN v.g.children[index].internal_progress[output])
                        EXCEPT !.g.children[index].produced_messages[output] = CountMapNew,
                               !.g.children[index].internal_progress[output] = CountMapNew])

\* the body of `for input`: the consumed messages are popped until none is
\* left and logged with the opposite sign
DrainInput(st, index, input) ==
    Then(st,
         LAMBDA v : [FoldSet(LAMBDA acc, time :
                                 [acc EXCEPT !.g.pointstamp_messages =
                                     Append(@, <<acc.g.children[index].index, input, time,
                                                 -v.g.children[index].consumed_messages[input][time]>>)],
                             v, DOMAIN v.g.children[index].consumed_messages[input])
                        EXCEPT !.g.children[index].consumed_messages[input] = CountMapNew])

\* ScopeWrapper::pull_pointstamps of child `index`, given what its
\* scope.pull_internal_progress put in the three buffers and returned
\* (`report`); the returned flag is appended to st.subactive
PullPointstamps(st, index, report) ==
    [FoldRange(LAMBDA acc, input : DrainInput(acc, index, input),
               FoldRange(LAMBDA acc, output : DrainOutput(acc, index, output),
                         [st EXCEPT !.g.children[index] = Answered(@, report)],
                         0, st.g.children[index].outputs),
               0, st.g.children[index].inputs)
        EXCEPT !.subactive = VecPush(@, report.active)]

(***************************************************************************)
(* The Scope interface of the subgraph                                     *)
(***************************************************************************)
\* the frontier of every output capability of every child, as +1 updates
\* at its ScopeOutput
SeedCapabilities(g) ==
    [g EXCEPT !.pointstamps =
        FoldRange(LAMBDA ps, scope :
                      FoldRange(LAMBDA ps2, output :
                                    UpdateSource(ps2, ScopeOutput(scope, output),
                                                 [t \in Elements(g.children[scope].capabilities[output]) |-> 1]),
                                ps, 0, g.children[scope].outputs),
                  g.pointstamps, 0, VecLen(g.children))]

\* the storage get_internal_summary prepares
AllocateSummaries(g) ==
    [g EXCEPT
        !.source_summaries = [s \in DOMAIN g.children |-> VecNew(g.children[s].outputs, <<>>)],
        !.target_summaries = [s \in DOMAIN g.children |-> VecNew(g.children[s].inputs, <<>>)],
        !.pointstamps = [@ EXCEPT
            !.target_pushed = [s \in DOMAIN g.children |-> VecNew(g.children[s].inputs, CountMapNew)],
            !.target_counts = [s \in DOMAIN g.children |-> VecNew(g.children[s].inputs, CountMapNew)],
            !.source_counts = [s \in DOMAIN g.children |-> VecNew(g.children[s].outputs, CountMapNew)],
            !.input_counts  = VecNew(g.inputs, CountMapNew),
            !.output_pushed = VecNew(g.outputs, CountMapNew)],
        !.input_summaries = VecNew(g.inputs, <<>>),
        !.external_summaries = VecNew(g.outputs, VecNew(g.inputs, AntichainNew))]

\* the `work` of get_internal_summary: what was pushed to each graph output,
\* keyed by its outer coordinate
InitialWork(g) ==
    [output \in 0..(g.outputs - 1) |->
        CountMapMap(g.pointstamps.output_pushed[output], OuterOf, 1)]

\* a match that answers the default for every summary
DefaultComponent(summary) == DefaultValue

\* the match that turns a summary into what the parent sees of it
OuterComponent(summary) ==
    IF summary.tag = "Local" THEN DefaultValue ELSE summary.outer

\* the `summaries` of get_internal_summary
InternalSummaries(g) ==
    [input \in 0..(g.inputs - 1) |->
        [output \in 0..(g.outputs - 1) |->
            FoldSeq(LAMBDA ac, entry :
                        IF entry.target = GraphOutput(output)
                        THEN FoldSet(LAMBDA ac2, summary :
                                         AntichainInsert(CoordLeq, ac2,
                                                         OuterComponent(summary)).elements,
                                     ac, entry.antichain)
                        ELSE ac,
                    AntichainNew, g.input_summaries[input])]]

\* get_internal_summary once the pointstamps are pushed: [g, summaries, work]
SummaryResult(pushed) ==
    [g |-> [pushed EXCEPT
               !.external_capability =
                   [output \in DOMAIN @ |->
                       OuterUpdateInto(@[output], InitialWork(pushed)[output]).ma],
               !.pointstamps = ClearPushed(@)],
     summaries |-> InternalSummaries(pushed),
     work |-> InitialWork(pushed)]

\* Subgraph::get_internal_summary: [g, summaries, work]
GetInternalSummary(g) ==
    SummaryResult(PushPointstampsToTargets(SetSummaries(SeedCapabilities(AllocateSummaries(g)))))

\* a frontier of outer times introduced as pointstamps of the graph inputs
IntroduceFrontier(g, frontier, inputs) ==
    [g EXCEPT !.pointstamps =
        FoldRange(LAMBDA ps, input :
                      UpdateSource(ps, GraphInput(input),
                                   CountMapMap(frontier[input],
                                               LAMBDA time : <<time, DefaultValue>>, 1)),
                  @, 0, inputs)]

\* the summaries a child is handed by set_external_summary: for each of its
\* outputs and inputs, how the output leads back to the input
ProjectedSummaries(g, subscope) ==
    [output \in 0..(g.children[subscope].outputs - 1) |->
        [input \in 0..(g.children[subscope].inputs - 1) |->
            FoldSeq(LAMBDA ac, entry :
                        IF entry.target = ScopeInput(subscope, input) THEN entry.antichain ELSE ac,
                    AntichainNew, g.source_summaries[subscope][output])]]

\* a loop body that calls set_external_summary only on a child that asked to
\* be notified
ChildSummarisedIfNotified(st, subscope, r) ==
    [g     |-> [st.g EXCEPT !.children[subscope] =
                   [r.child EXCEPT !.guarantee_changes =
                       [input_port \in DOMAIN @ |-> CountMapNew]]],
     calls |-> IF st.g.children[subscope].notify
               THEN VecPush(st.calls, [scope     |-> subscope,
                                       summaries |-> ProjectedSummaries(st.g, subscope),
                                       frontier  |-> r.child.guarantee_changes])
               ELSE st.calls,
     fatal |-> st.fatal \/ r.fatal]

\* the call of the child's set_external_summary and the clearing after it,
\* for the updated guarantees r; st is [g, calls, fatal]
ChildSummarised(st, subscope, r) ==
    [g     |-> [st.g EXCEPT !.children[subscope] =
                   [r.child EXCEPT !.guarantee_changes =
                       [input_port \in DOMAIN @ |-> CountMapNew]]],
     calls |-> VecPush(st.calls, [scope     |-> subscope,
                                  summaries |-> ProjectedSummaries(st.g, subscope),
                                  frontier  |-> r.child.guarantee_changes]),
     fatal |-> st.fatal \/ r.fatal]

\* Subgraph::set_external_summary: [g, calls, fatal, output_pushed];
\* `output_pushed` is what the buffer held when clear_pushed emptied it; `calls` holds, in the
\* order they are made, the calls of set_external_summary on the children:
\* the child and the arguments
SetExternalSummary(g, summaries, frontier) ==
    Then(FoldRange(LAMBDA acc, subscope :
                   ChildSummarised(acc, subscope,
                       IF acc.g.children[subscope].notify
                       THEN UpdateGuarantees(acc.g.children[subscope],
                                             acc.g.pointstamps.target_pushed[subscope])
                       ELSE [child |-> acc.g.children[subscope], fatal |-> FALSE]),
               [g |-> PushPointstampsToTargets(SeedCapabilities(IntroduceFrontier(
                          SetSummaries([g EXCEPT !.external_summaries = summaries]),
                          frontier, g.inputs))),
                calls |-> <<>>, fatal |-> FALSE],
               0, VecLen(g.children)),
         LAMBDA st : [g |-> [st.g EXCEPT !.pointstamps = ClearPushed(@)],
                      calls |-> st.calls,
                      fatal |-> st.fatal,
                      output_pushed |-> st.g.pointstamps.output_pushed])

\* child.push_pointstamps(..) for its result r; st has g, pushes and fatal
ChildPushed(st, index, r) ==
    [st EXCEPT !.g.children[index] = r.child,
               !.pushes = VecPush(@, [pushed |-> r.pushed, changes |-> r.changes]),
               !.fatal = @ \/ r.fatal]

\* the `for child: child.push_pointstamps(target_pushed[index])` loop
PushToChildren(st) ==
    FoldRange(LAMBDA acc, index :
                  Then(PushPointstamps(acc.g.children[index],
                                       acc.g.pointstamps.target_pushed[index]),
                       LAMBDA r : ChildPushed(acc, index, r)),
              st, 0, VecLen(st.g.children))

\* Subgraph::push_external_progress: [g, pushes, fatal, output_pushed];
\* `output_pushed` is what the buffer held when clear_pushed emptied it
PushExternalProgress(g, external_progress) ==
    Then(PushToChildren([g |-> PushPointstampsToTargets(
                                   IntroduceFrontier(g, external_progress, VecLen(external_progress))),
                         pushes |-> <<>>, fatal |-> FALSE]),
         LAMBDA st : [g |-> [st.g EXCEPT !.pointstamps = ClearPushed(@)],
                      pushes |-> st.pushes,
                      fatal |-> st.fatal,
                      output_pushed |-> st.g.pointstamps.output_pushed])

\* Progcaster::send_and_recv with a single worker: both logs come back as sent
SendAndRecv(messages, internal) == [messages |-> messages, internal |-> internal]

\* a log handed on as it came, nothing summed
Uncompacted(log) == log

\* a log summed by key in a CountMap and expanded again
Compact(log) ==
    LET cm == FoldSeq(LAMBDA acc, e : CountMapUpdate(acc, <<e[1], e[2], e[3]>>, e[4]),
                      CountMapNew, log)
    IN  FoldSet(LAMBDA acc, key : Append(acc, <<key[1], key[2], key[3], cm[key]>>),
                <<>>, DOMAIN cm)

\* a step 1 that follows the edges to scope inputs only
PullInputMessagesToScopes(st) ==
    FoldRange(LAMBDA acc, input :
                  [FoldSet(LAMBDA acc2, time :
                               FoldSeq(LAMBDA acc3, target :
                                           IF target.kind = "ScopeInput"
                                           THEN [acc3 EXCEPT !.g.pointstamp_messages = Append(@,
                                                     <<target.scope, target.port, time,
                                                       st.g.input_messages[input][time]>>)]
                                           ELSE acc3,
                                       [acc2 EXCEPT !.messages_consumed[input] =
                                           CountMapUpdate(@, OuterOf(time),
                                                          st.g.input_messages[input][time])],
                                       st.g.input_edges[input]),
                           acc, DOMAIN st.g.input_messages[input])
                      EXCEPT !.g.input_messages[input] = CountMapNew],
              st, 0, st.g.inputs)

\* Step 1 of pull_internal_progress: the shared input counters are drained
PullInputMessages(st) ==
    FoldRange(LAMBDA acc, input :
                  [FoldSet(LAMBDA acc2, time :
                               FoldSeq(LAMBDA acc3, target :
                                           IF target.kind = "ScopeInput"
                                           THEN [acc3 EXCEPT !.g.pointstamp_messages = Append(@,
                                                     <<target.scope, target.port, time,
                                                       st.g.input_messages[input][time]>>)]
                                           ELSE [acc3 EXCEPT !.messages_produced[target.port] =
                                                     CountMapUpdate(@, OuterOf(time),
                                                                    st.g.input_messages[input][time])],
                                       [acc2 EXCEPT !.messages_consumed[input] =
                                           CountMapUpdate(@, OuterOf(time),
                                                          st.g.input_messages[input][time])],
                                       st.g.input_edges[input]),
                           acc, DOMAIN st.g.input_messages[input])
                      EXCEPT !.g.input_messages[input] = CountMapNew],
              st, 0, st.g.inputs)

\* `if subactive { active = true; }`
NoteSubactive(st, index) == [st EXCEPT !.active = @ \/ st.subactive[index]]

\* Step 2 of pull_internal_progress: every child is pulled
PullChildren(st, reports) ==
    FoldRange(LAMBDA acc, index :
                  NoteSubactive(PullPointstamps(acc, index, reports[index]), index),
              st, 0, VecLen(st.g.children))

\* an absorption that moves the pointstamps but not the antichain
MessagesCounted(st, e, r) ==
    [st EXCEPT !.g.pointstamps = UpdateTarget(@, ScopeInput(e[1], e[2]), r.changes),
               !.fatal = @ \/ r.fatal]

\* outstanding_messages[input].update_and(..) of one log entry e, for its
\* result r: the frontier changes become pointstamps of the target; an
\* update that is fatal ends the call, the entries behind it are not reached
MessagesAbsorbed(st, e, r) ==
    IF st.fatal \/ r.fatal
    THEN [st EXCEPT !.fatal = TRUE]
    ELSE [st EXCEPT !.g.children[e[1]].outstanding_messages[e[2]] = r.ma,
                    !.g.pointstamps = UpdateTarget(@, ScopeInput(e[1], e[2]), r.changes)]

\* an absorption that hands update_source the delta of the log entry itself
InternalAbsorbedRaw(st, e, r) ==
    [st EXCEPT !.g.children[e[1]].capabilities[e[2]] = r.ma,
               !.g.pointstamps = UpdateSource(@, ScopeOutput(e[1], e[2]),
                                              CountMapUpdate(CountMapNew, e[3], e[4])),
               !.fatal = @ \/ r.fatal]

\* an absorption that takes every update, whatever it does to the count
InternalAbsorbedUnchecked(st, e, r) ==
    [st EXCEPT !.g.children[e[1]].capabilities[e[2]] = r.ma,
               !.g.pointstamps = UpdateSource(@, ScopeOutput(e[1], e[2]), r.changes)]

\* capabilities[output].update_and(..) of one log entry e, for its result r:
\* the frontier changes become pointstamps of the source; an update that is
\* fatal ends the call, the entries behind it are not reached
InternalAbsorbed(st, e, r) ==
    IF st.fatal \/ r.fatal
    THEN [st EXCEPT !.fatal = TRUE]
    ELSE [st EXCEPT !.g.children[e[1]].capabilities[e[2]] = r.ma,
                    !.g.pointstamps = UpdateSource(@, ScopeOutput(e[1], e[2]), r.changes)]

\* the two drain loops of the intermission: the compacted logs `messages`
\* and `internal` are absorbed by the antichains, entry by entry
AbsorbEntries(st, messages, internal) ==
    [FoldSeq(LAMBDA acc, e :
                 InternalAbsorbed(acc, e,
                     UpdateAnd(acc.g.children[e[1]].capabilities[e[2]], e[3], e[4])),
             FoldSeq(LAMBDA acc, e :
                         MessagesAbsorbed(acc, e,
                             UpdateAnd(acc.g.children[e[1]].outstanding_messages[e[2]], e[3], e[4])),
                     st, messages),
             internal)
        EXCEPT !.g.pointstamp_messages = <<>>, !.g.pointstamp_internal = <<>>,
               !.absorbed.messages = messages, !.absorbed.internal = internal]

\* the intermission of pull_internal_progress: the logs are exchanged,
\* compacted and absorbed by the antichains
AbsorbLogs(st) ==
    AbsorbEntries(st,
                  Compact(SendAndRecv(st.g.pointstamp_messages,
                                      st.g.pointstamp_internal).messages),
                  Compact(SendAndRecv(st.g.pointstamp_messages,
                                      st.g.pointstamp_internal).internal))

\* external_capability[output].update_and(..) of what was pushed to a graph
\* output, for its result r: the frontier changes are the internal_progress
OutputUpdated(st, output, r) ==
    [st EXCEPT !.g.external_capability[output] = r.ma,
               !.g.pointstamps.output_pushed[output] = CountMapNew,
               !.internal_progress[output] = CountMapAdd(@, r.changes),
               !.fatal = @ \/ r.fatal]

\* Step 4 of pull_internal_progress
PushToOutputs(st) ==
    FoldRange(LAMBDA acc, output :
                  OutputUpdated(acc, output,
                      OuterUpdateInto(acc.g.external_capability[output],
                                      CountMapMap(acc.g.pointstamps.output_pushed[output],
                                                  OuterOf, 1))),
              st, 0, st.g.outputs)

\* a last loop that looks at the messages only
AnyOutstandingMessages(g) ==
    \E index \in DOMAIN g.children :
        \E input \in DOMAIN g.children[index].outstanding_messages :
            Elements(g.children[index].outstanding_messages[input]) # {}

\* the last loop of pull_internal_progress
AnyOutstanding(g) ==
    \E index \in DOMAIN g.children :
        \/ \E input \in DOMAIN g.children[index].outstanding_messages :
               Elements(g.children[index].outstanding_messages[input]) # {}
        \/ \E output \in DOMAIN g.children[index].capabilities :
               Elements(g.children[index].capabilities[output]) # {}

\* an end that answers active as long as the subgraph has children
FinishBusy(st) ==
    [st EXCEPT !.g.pointstamps = ClearPushed(@),
               !.active = @ \/ st.g.children # <<>>]

\* an end that computes the summary tables anew from the edges
FinishResummarised(st) ==
    [st EXCEPT !.g = SetSummaries([@ EXCEPT !.pointstamps = ClearPushed(@)]),
               !.active = @ \/ AnyOutstanding(st.g)]

\* the end of pull_internal_progress: clear_pushed and the returned flag
Finish(st) ==
    [st EXCEPT !.g.pointstamps = ClearPushed(@),
               !.active = @ \/ AnyOutstanding(st.g)]

\* push_pointstamps_to_targets on the subgraph of st
PushPointstampsOf(st) ==
    Then([st EXCEPT !.g = PushPointstampsToTargets(@)],
         LAMBDA x : [x EXCEPT !.absorbed.target_pushed = x.g.pointstamps.target_pushed,
                              !.absorbed.output_pushed = x.g.pointstamps.output_pushed])

\* pull_internal_progress as it is entered: the subgraph, the three vectors
\* handed in by the caller and the locals
PullFrame(g) ==
    [g |-> g,
     internal_progress |-> VecNew(g.outputs, CountMapNew),
     messages_consumed |-> VecNew(g.inputs, CountMapNew),
     messages_produced |-> VecNew(g.outputs, CountMapNew),
     active |-> FALSE,
     subactive |-> <<>>,
     pushes |-> <<>>,
     absorbed |-> [messages |-> <<>>, internal |-> <<>>,
                   target_pushed |-> <<>>, output_pushed |-> <<>>],
     fatal |-> FALSE]

\* Subgraph::pull_internal_progress, given what each child answers (`reports`):
\* [g, internal_progress, messages_consumed, messages_produced, active,
\*  subactive, pushes, absorbed, fatal]; `absorbed` keeps the two compacted
\* logs the intermission drained and the buffers push_pointstamps_to_targets
\* filled
PullInternalProgress(g, reports) ==
    Unfailed(Unfailed(Unfailed(Unfailed(Then(Then(Then(
        PullFrame(g),
        PullInputMessages),
        LAMBDA st : PullChildren(st, reports)),
        AbsorbLogs),
        PushPointstampsOf),
        PushToChildren),
        PushToOutputs),
        Finish)

\* pull_internal_progress up to its call of send_and_recv: steps 1 and 2
PullBegin(g, reports) ==
    Then(Then(
        PullFrame(g),
        PullInputMessages),
        LAMBDA st : PullChildren(st, reports))

\* pull_internal_progress from the drain loops of the intermission to its
\* return, the compacted logs being `messages` and `internal`
PullEnd(st, messages, internal) ==
    Unfailed(Unfailed(Unfailed(Unfailed(
        AbsorbEntries(st, messages, internal),
        PushPointstampsOf),
        PushToChildren),
        PushToOutputs),
        Finish)

(***************************************************************************)
(* The state: the subgraph, the scopes boxed in it, its parent, and the    *)
(* program that builds and drives it.                                      *)
(***************************************************************************)
VARIABLES
    subgraph,   \* the Subgraph
    scopes,     \* per child, the boxed scope's own state: the messages
                \* delivered to its inputs (chan), the capabilities it holds
                \* (held), the input frontiers it has been told (told) and the
                \* external summaries it was given (external)
    parent,     \* what the parent scope holds about the subgraph: the summaries
                \* and capabilities returned to it, the frontier it promised
    phase,      \* "building", "summarised" (get_internal_summary done), "sealed"
    script,     \* which graph the builder program constructs
    step,       \* how many builder calls it has made
    ret,        \* the last call on the subgraph and what it returned
    budget,     \* what the environment may still do
    panicked    \* a fatal error ended the program

vars == <<subgraph, scopes, parent, phase, script, step, ret, budget, panicked>>

\* the graphs the builder program constructs
Scripts ==
    << \* a graph input through one operator to a graph output
       << [op |-> "new_input"], [op |-> "new_output"],
          [op |-> "add_boxed_scope", scope |-> "unary"],
          [op |-> "connect", source |-> GraphInput(0), target |-> ScopeInput(0, 0)],
          [op |-> "connect", source |-> ScopeOutput(0, 0), target |-> GraphOutput(0)] >>,
       \* a source holding a capability, an operator behind it, a graph output
       << [op |-> "new_output"],
          [op |-> "add_boxed_scope", scope |-> "input"],
          [op |-> "add_boxed_scope", scope |-> "unary"],
          [op |-> "connect", source |-> ScopeOutput(0, 0), target |-> ScopeInput(1, 0)],
          [op |-> "connect", source |-> ScopeOutput(1, 0), target |-> GraphOutput(0)] >>,
       \* an operator with a self-loop that adds one iteration
       << [op |-> "new_output"],
          [op |-> "add_boxed_scope", scope |-> "iterate"],
          [op |-> "connect", source |-> ScopeOutput(0, 0), target |-> ScopeInput(0, 0)],
          [op |-> "connect", source |-> ScopeOutput(0, 0), target |-> GraphOutput(0)] >>,
       \* an input that ends in a sink and a source that feeds the output
       << [op |-> "new_input"], [op |-> "new_output"],
          [op |-> "add_boxed_scope", scope |-> "sink"],
          [op |-> "add_boxed_scope", scope |-> "input"],
          [op |-> "connect", source |-> GraphInput(0), target |-> ScopeInput(0, 0)],
          [op |-> "connect", source |-> ScopeOutput(1, 0), target |-> GraphOutput(0)] >>,
       \* a loop through a scope that does not ask for notifications
       << [op |-> "new_input"], [op |-> "new_output"],
          [op |-> "add_boxed_scope", scope |-> "unary"],
          [op |-> "add_boxed_scope", scope |-> "relay"],
          [op |-> "connect", source |-> GraphInput(0), target |-> ScopeInput(0, 0)],
          [op |-> "connect", source |-> ScopeOutput(0, 0), target |-> ScopeInput(1, 0)],
          [op |-> "connect", source |-> ScopeOutput(1, 0), target |-> ScopeInput(0, 0)],
          [op |-> "connect", source |-> ScopeOutput(0, 0), target |-> GraphOutput(0)] >>,
       \* a chain of three scopes that do not ask for notifications
       << [op |-> "new_output"],
          [op |-> "add_boxed_scope", scope |-> "relay"],
          [op |-> "add_boxed_scope", scope |-> "relay"],
          [op |-> "add_boxed_scope", scope |-> "relay"],
          [op |-> "connect", source |-> ScopeOutput(0, 0), target |-> ScopeInput(1, 0)],
          [op |-> "connect", source |-> ScopeOutput(1, 0), target |-> ScopeInput(2, 0)],
          [op |-> "connect", source |-> ScopeOutput(2, 0), target |-> GraphOutput(0)] >>,
       \* a graph input through a scope that advances the outer coordinate
       << [op |-> "new_input"], [op |-> "new_output"],
          [op |-> "add_boxed_scope", scope |-> "nested"],
          [op |-> "connect", source |-> GraphInput(0), target |-> ScopeInput(0, 0)],
          [op |-> "connect", source |-> ScopeOutput(0, 0), target |-> GraphOutput(0)] >>
    >>

\* the graphs in which no path leads from a scope back to itself
AcyclicScripts == {1, 2, 4, 6, 7}

\* the next builder call of the program
NextCall == Scripts[script][step + 1]

NoReturn(op) ==
    [op |-> op, active |-> FALSE, subactive |-> <<>>, internal_progress |-> <<>>,
     messages_consumed |-> <<>>, messages_produced |-> <<>>, pushes |-> <<>>]

Init ==
    /\ subgraph = SubgraphNewFrom
    /\ scopes = <<>>
    /\ parent = [summaries |-> <<>>, capabilities |-> <<>>, frontier |-> <<>>,
                 external |-> <<>>]
    /\ phase = "building"
    /\ script \in 1..Len(Scripts)
    /\ step = 0
    /\ ret = NoReturn("new_from")
    /\ budget = [ingress |-> MaxIngress, sends |-> MaxSends, spins |-> MaxSpins]
    /\ panicked = FALSE

Building == phase = "building" /\ ~panicked /\ step < Len(Scripts[script])

(***************************************************************************)
(* The builder calls.                                                      *)
(***************************************************************************)
NewInput ==
    /\ Building /\ NextCall.op = "new_input"
    /\ subgraph' = SubgraphNewInput(subgraph)
    /\ step' = step + 1
    /\ ret' = NoReturn("new_input")
    /\ UNCHANGED <<scopes, parent, phase, script, budget, panicked>>

NewOutput ==
    /\ Building /\ NextCall.op = "new_output"
    /\ subgraph' = SubgraphNewOutput(subgraph)
    /\ step' = step + 1
    /\ ret' = NoReturn("new_output")
    /\ UNCHANGED <<scopes, parent, phase, script, budget, panicked>>

\* the boxed scope's state once ScopeWrapper::new has asked for its summary
\* `calls` counts the calls it has received, and `early` notes a progress
\* call that came before both of them
ScopeStart(scope) ==
    [chan     |-> VecNew(scope.inputs, CountMapNew),
     held     |-> scope.work,
     told     |-> VecNew(scope.inputs, CountMapNew),
     external |-> <<>>,
     calls    |-> [get_internal_summary |-> 1, set_external_summary |-> 0,
                   early |-> FALSE]]

AddBoxedScope ==
    /\ Building /\ NextCall.op = "add_boxed_scope"
    /\ \E scope \in {Scope(NextCall.scope)} :
         /\ subgraph' = SubgraphAddBoxedScope(subgraph, scope)
         /\ scopes' = VecPush(scopes, ScopeStart(scope))
    /\ step' = step + 1
    /\ ret' = NoReturn("add_boxed_scope")
    /\ UNCHANGED <<parent, phase, script, budget, panicked>>

Connect ==
    /\ Building /\ NextCall.op = "connect"
    /\ subgraph' = SubgraphConnect(subgraph, NextCall.source, NextCall.target)
    /\ step' = step + 1
    /\ ret' = NoReturn("connect")
    /\ UNCHANGED <<scopes, parent, phase, script, budget, panicked>>

(***************************************************************************)
(* Sealing, by the parent.                                                 *)
(***************************************************************************)
\* the parent's ScopeWrapper::new asks for the summary and keeps the work
Seal ==
    /\ phase = "building" /\ ~panicked /\ step = Len(Scripts[script])
    /\ \E r \in {GetInternalSummary(subgraph)} :
         /\ subgraph' = r.g
         /\ parent' = [parent EXCEPT !.summaries = r.summaries,
                                     !.capabilities = r.work]
    /\ phase' = "summarised"
    /\ ret' = NoReturn("get_internal_summary")
    /\ UNCHANGED <<scopes, script, step, budget, panicked>>

\* the antichains of outer summaries the parent may report for an
\* (output, input) pair
ExternalChoices == {{}, {1}}

\* a boxed scope notes what set_external_summary or push_external_progress
\* tells it
Tell(scope, call) ==
    [scope EXCEPT !.told = [input \in DOMAIN @ |-> CountMapAdd(@[input], call[input])]]

\* a boxed scope receives the call `call` of set_external_summary
Summarised(scope, call) ==
    [Tell(scope, call.frontier)
        EXCEPT !.external = call.summaries,
               !.calls.set_external_summary = @ + 1]

\* a boxed scope receives push_external_progress or pull_internal_progress
Progressed(scope) ==
    [scope EXCEPT !.calls.early = @ \/ scope.calls.get_internal_summary = 0
                                    \/ scope.calls.set_external_summary = 0]

SetExternal ==
    /\ phase = "summarised" /\ ~panicked
    /\ \E summaries \in [0..(subgraph.outputs - 1) ->
                            [0..(subgraph.inputs - 1) -> ExternalChoices]] :
       \E frontier \in {VecNew(subgraph.inputs, CountMapUpdate(CountMapNew, DefaultValue, 1))} :
       \E r \in {SetExternalSummary(subgraph, summaries, frontier)} :
         /\ subgraph' = r.g
         /\ scopes' = FoldRange(LAMBDA acc, k :
                                    [acc EXCEPT ![r.calls[k].scope] =
                                        Summarised(@, r.calls[k])],
                                scopes, 0, VecLen(r.calls))
         /\ parent' = [parent EXCEPT !.frontier = frontier, !.external = summaries]
         /\ panicked' = r.fatal
         /\ ret' = NoReturn("set_external_summary") @@ [output_pushed |-> r.output_pushed]
    /\ phase' = "sealed"
    /\ UNCHANGED <<script, step, budget>>

(***************************************************************************)
(* The boxed scopes: what a child may answer to pull_internal_progress.     *)
(***************************************************************************)
One(t) == CountMapUpdate(CountMapNew, t, 1)

Pending(scope) ==
    \/ \E input \in DOMAIN scope.chan : scope.chan[input] # CountMapNew
    \/ \E output \in DOMAIN scope.held : scope.held[output] # CountMapNew

\* the answer of a scope that does nothing
IdleReport(w, active) ==
    [internal_progress |-> VecNew(w.outputs, CountMapNew),
     consumed_messages |-> VecNew(w.inputs, CountMapNew),
     produced_messages |-> VecNew(w.outputs, CountMapNew),
     active |-> active]

\* the scope takes one message at `time` from `input`; it may pass it on, or
\* keep a capability for it, at the time its summary gives on an output
ConsumeOutcomes(w, scope, bud, input, time) ==
    LET taken == [scope EXCEPT !.chan[input] = CountMapUpdate(@, time, -1)]
        base  == [IdleReport(w, Pending(taken)) EXCEPT !.consumed_messages[input] = One(time)]
        ok    == {x \in UNION {{<<o, ResultsIn(s, time)>> : s \in w.summary[input][o]} :
                                   o \in 0..(w.outputs - 1)} :
                     x[2][1] <= MaxOuter /\ x[2][2] <= MaxInner}
    IN  {[report |-> base, scope |-> taken, budget |-> bud,
          sent |-> VecNew(w.outputs, CountMapNew)]}
        \cup
        {[report |-> [base EXCEPT !.produced_messages[x[1]] = One(x[2]), !.active = TRUE],
          scope |-> taken, budget |-> bud,
          sent |-> [VecNew(w.outputs, CountMapNew) EXCEPT ![x[1]] = One(x[2])]] : x \in ok}
        \cup
        {[report |-> [base EXCEPT !.internal_progress[x[1]] = One(x[2]), !.active = TRUE],
          scope |-> [taken EXCEPT !.held[x[1]] = CountMapUpdate(@, x[2], 1)],
          budget |-> bud,
          sent |-> VecNew(w.outputs, CountMapNew)] : x \in ok}

\* the scope uses a capability it holds at `time` on `output`: it drops it,
\* moves it to the next iteration, or sends a message under it
CapabilityOutcomes(w, scope, bud, output, time) ==
    LET dropped == [scope EXCEPT !.held[output] = CountMapUpdate(@, time, -1)]
        next    == <<time[1], time[2] + 1>>
        moved   == [dropped EXCEPT !.held[output] = CountMapUpdate(@, next, 1)]
    IN  {[report |-> [IdleReport(w, Pending(dropped)) EXCEPT
                         !.internal_progress[output] = CountMapUpdate(CountMapNew, time, -1)],
          scope |-> dropped, budget |-> bud, sent |-> VecNew(w.outputs, CountMapNew)]}
        \cup
        (IF time[2] < MaxInner
         THEN {[report |-> [IdleReport(w, TRUE) EXCEPT
                               !.internal_progress[output] =
                                   CountMapUpdate(CountMapUpdate(CountMapNew, time, -1), next, 1)],
                scope |-> moved, budget |-> bud, sent |-> VecNew(w.outputs, CountMapNew)]}
         ELSE {})
        \cup
        (IF bud.sends > 0
         THEN {[report |-> [IdleReport(w, TRUE) EXCEPT !.produced_messages[output] = One(time)],
                scope |-> scope,
                budget |-> [bud EXCEPT !.sends = @ - 1],
                sent |-> [VecNew(w.outputs, CountMapNew) EXCEPT ![output] = One(time)]]}
         ELSE {})

\* everything child `w` may answer in one pull
ScopeOutcomes(w, scope, bud) ==
    {[report |-> IdleReport(w, FALSE), scope |-> scope, budget |-> bud,
      sent |-> VecNew(w.outputs, CountMapNew)]}
    \cup
    (IF bud.spins > 0 /\ ~Pending(scope)
     THEN {[report |-> IdleReport(w, TRUE), scope |-> scope,
            budget |-> [bud EXCEPT !.spins = @ - 1],
            sent |-> VecNew(w.outputs, CountMapNew)]}
     ELSE {})
    \cup
    UNION {ConsumeOutcomes(w, scope, bud, x[1], x[2]) :
              x \in UNION {{<<i, t>> : t \in DOMAIN scope.chan[i]} : i \in DOMAIN scope.chan}}
    \cup
    UNION {CapabilityOutcomes(w, scope, bud, x[1], x[2]) :
              x \in UNION {{<<o, t>> : t \in DOMAIN scope.held[o]} : o \in DOMAIN scope.held}}

\* the data channels: what a scope sent on its outputs reaches the inputs
\* its edges lead to
Deliver(all, edges, sent) ==
    FoldRange(LAMBDA acc, output :
                  FoldSeq(LAMBDA acc2, target :
                              IF target.kind = "ScopeInput"
                              THEN [acc2 EXCEPT ![target.scope].chan[target.port] =
                                       CountMapAdd(@, sent[output])]
                              ELSE acc2,
                          acc, edges[output]),
              all, 0, VecLen(sent))

\* the children are pulled in turn: every way the pull of children
\* index, index + 1, ... may go. st is [scopes, budget, reports]
RECURSIVE PullOutcomes(_, _)
PullOutcomes(index, st) ==
    IF index >= VecLen(subgraph.children) THEN {st}
    ELSE UNION {PullOutcomes(index + 1, next) :
                next \in {[scopes  |-> Deliver([st.scopes EXCEPT ![index] = Progressed(o.scope)],
                                               subgraph.children[index].edges, o.sent),
                           budget  |-> o.budget,
                           reports |-> VecPush(st.reports, o.report)] :
                             o \in ScopeOutcomes(subgraph.children[index], st.scopes[index],
                                                 st.budget)}}

(***************************************************************************)
(* Progress, after sealing.                                                *)
(***************************************************************************)
Running == phase = "sealed" /\ ~panicked

\* the scopes after the pushes of a call: a pushed scope notes its changes
Told(all, pushes) ==
    [c \in DOMAIN all |->
        IF c \in DOMAIN pushes /\ pushes[c].pushed
        THEN Progressed(Tell(all[c], pushes[c].changes))
        ELSE all[c]]

\* an ingress nub passes a message at outer time t into graph input `input`
Ingress ==
    /\ Running /\ budget.ingress > 0
    /\ \E input \in 0..(subgraph.inputs - 1), t \in 0..MaxOuter :
         /\ \E f \in DOMAIN parent.frontier[input] : f <= t
         /\ subgraph' = [subgraph EXCEPT !.input_messages[input] =
                            CountMapUpdate(@, <<t, DefaultValue>>, 1)]
         /\ scopes' = Deliver(scopes, subgraph.input_edges,
                              [VecNew(subgraph.inputs, CountMapNew) EXCEPT
                                  ![input] = One(<<t, DefaultValue>>)])
    /\ budget' = [budget EXCEPT !.ingress = @ - 1]
    /\ ret' = NoReturn("ingress")
    /\ UNCHANGED <<parent, phase, script, step, panicked>>

\* the parent moves the frontier of one graph input forward, or closes it;
\* a message it has delivered and the subgraph has not yet reported as
\* consumed still holds the frontier
PushExternal ==
    /\ Running
    /\ \E input \in 0..(subgraph.inputs - 1) :
       \E f \in DOMAIN parent.frontier[input] :
       \E change \in {CountMapUpdate(CountMapNew, f, -1)}
                     \cup {CountMapUpdate(CountMapUpdate(CountMapNew, f, -1), n, 1) :
                              n \in (f + 1)..MaxOuter} :
       \E r \in {PushExternalProgress(subgraph,
                      [VecNew(subgraph.inputs, CountMapNew) EXCEPT ![input] = change])} :
         /\ \A t \in DOMAIN subgraph.input_messages[input] :
                \E n \in DOMAIN CountMapAdd(parent.frontier[input], change) : n <= OuterOf(t)
         /\ subgraph' = r.g
         /\ scopes' = Told(scopes, r.pushes)
         /\ parent' = [parent EXCEPT !.frontier[input] = CountMapAdd(@, change)]
         /\ ret' = [NoReturn("push_external_progress") EXCEPT !.pushes = r.pushes]
                    @@ [output_pushed |-> r.output_pushed]
         /\ panicked' = r.fatal
    /\ UNCHANGED <<phase, script, step, budget>>

\* the driver pulls and the children answer as in `o`, one of PullOutcomes:
\* the subgraph absorbs and propagates
PullWith(o) ==
    /\ Running
    /\ \E r \in {PullInternalProgress(subgraph, o.reports)} :
         /\ subgraph' = r.g
         /\ scopes' = Told(o.scopes, r.pushes)
         /\ budget' = o.budget
         /\ parent' = [parent EXCEPT !.capabilities =
                          [output \in DOMAIN @ |->
                              CountMapAdd(@[output], r.internal_progress[output])]]
         /\ ret' = [op |-> "pull_internal_progress",
                    active |-> r.active,
                    subactive |-> r.subactive,
                    internal_progress |-> r.internal_progress,
                    messages_consumed |-> r.messages_consumed,
                    messages_produced |-> r.messages_produced,
                    pushes |-> r.pushes,
                    pointstamp_messages |-> r.absorbed.messages,
                    pointstamp_internal |-> r.absorbed.internal,
                    target_pushed |-> r.absorbed.target_pushed,
                    output_pushed |-> r.absorbed.output_pushed]
         /\ panicked' = r.fatal
    /\ UNCHANGED <<phase, script, step>>

\* the driver pulls: every child answers in one of the ways it may
Pull ==
    \E o \in PullOutcomes(0, [scopes |-> scopes, budget |-> budget, reports |-> <<>>]) :
        PullWith(o)

Next ==
    \/ NewInput
    \/ NewOutput
    \/ AddBoxedScope
    \/ Connect
    \/ Seal
    \/ SetExternal
    \/ Ingress
    \/ PushExternal
    \/ Pull

Spec == Init /\ [][Next]_vars

(***************************************************************************)
(* The driver loop `while pull_internal_progress(..) { }` with children    *)
(* that go on working: a pull in which some child consumes a message or    *)
(* changes a capability is taken as long as one is possible.               *)
(***************************************************************************)
Busy(o) ==
    \E c \in DOMAIN o.reports :
        \/ \E i \in DOMAIN o.reports[c].consumed_messages :
               o.reports[c].consumed_messages[i] # CountMapNew
        \/ \E output \in DOMAIN o.reports[c].internal_progress :
               o.reports[c].internal_progress[output] # CountMapNew

PullBusy ==
    \E o \in PullOutcomes(0, [scopes |-> scopes, budget |-> budget, reports |-> <<>>]) :
        Busy(o) /\ PullWith(o)

SpecLive == Spec /\ WF_vars(Pull) /\ WF_vars(PullBusy)

(***************************************************************************)
(* get_internal_summary with the `while !done` loop of set_summaries taken *)
(* one round at a time.                                                    *)
(***************************************************************************)
\* get_internal_summary up to the loop: phase "fixpoint" is `done = false`
SealBegin ==
    /\ phase = "building" /\ ~panicked /\ step = Len(Scripts[script])
    /\ subgraph' = SeedAllSummaries(SeedCapabilities(AllocateSummaries(subgraph)))
    /\ phase' = "fixpoint"
    /\ ret' = NoReturn("set_summaries")
    /\ UNCHANGED <<scopes, parent, script, step, budget, panicked>>

\* one round of the loop; it ends in phase "fixed" when the round left
\* `done = true`
SummaryStep ==
    /\ phase = "fixpoint"
    /\ \E st \in {SummaryRound([g |-> subgraph, done |-> FALSE])} :
         /\ subgraph' = st.g
         /\ phase' = IF st.done THEN "fixed" ELSE "fixpoint"
    /\ UNCHANGED <<scopes, parent, script, step, ret, budget, panicked>>

\* the rest of set_summaries and of get_internal_summary
SealEnd ==
    /\ phase = "fixed"
    /\ \E r \in {SummaryResult(PushPointstampsToTargets(PopulateTargetSummaries(subgraph)))} :
         /\ subgraph' = r.g
         /\ parent' = [parent EXCEPT !.summaries = r.summaries,
                                     !.capabilities = r.work]
    /\ phase' = "summarised"
    /\ ret' = NoReturn("get_internal_summary")
    /\ UNCHANGED <<scopes, script, step, budget, panicked>>

NextFix ==
    \/ NewInput
    \/ NewOutput
    \/ AddBoxedScope
    \/ Connect
    \/ SealBegin
    \/ SummaryStep
    \/ SealEnd
    \/ SetExternal
    \/ Ingress
    \/ PushExternal
    \/ Pull

SpecFix == Init /\ [][NextFix]_vars /\ WF_vars(SummaryStep)

(***************************************************************************)
(* Summary as a value: followed_by and results_in applied to summaries and *)
(* times drawn from a pool.                                                *)
(***************************************************************************)
Summaries ==
    {Local(t) : t \in 0..MaxCoord} \cup {Outer(y, t) : y \in 0..MaxCoord, t \in 0..MaxCoord}

Times == (0..MaxCoord) \X (0..MaxCoord)

InitAlg ==
    /\ subgraph = SubgraphNewFrom
    /\ scopes = <<>>
    /\ parent = [summaries |-> <<>>, capabilities |-> <<>>, frontier |-> <<>>]
    /\ phase = "summary"
    /\ script = 1
    /\ step = 0
    /\ ret \in [op : {"operands"}, a : Summaries, b : Summaries, c : Summaries, t : Times]
    /\ budget = [ingress |-> 0, sends |-> 0, spins |-> 0]
    /\ panicked = FALSE

\* a.followed_by(b).followed_by(c), a.followed_by(b.followed_by(c)) and the
\* compositions of a with the default summary
Compose ==
    /\ ret.op = "operands"
    /\ ret' = [op      |-> "followed_by",
               a       |-> ret.a,
               b       |-> ret.b,
               c       |-> ret.c,
               ab_c    |-> FollowedBy(FollowedBy(ret.a, ret.b), ret.c),
               a_bc    |-> FollowedBy(ret.a, FollowedBy(ret.b, ret.c)),
               default_a |-> FollowedBy(DefaultSummary, ret.a),
               a_default |-> FollowedBy(ret.a, DefaultSummary)]
    /\ UNCHANGED <<subgraph, scopes, parent, phase, script, step, budget, panicked>>

\* a.followed_by(b).results_in(t) and b.results_in(a.results_in(t))
Apply ==
    /\ ret.op = "operands"
    /\ ret' = [op       |-> "results_in",
               a        |-> ret.a,
               b        |-> ret.b,
               t        |-> ret.t,
               composed |-> ResultsIn(FollowedBy(ret.a, ret.b), ret.t),
               stepwise |-> ResultsIn(ret.b, ResultsIn(ret.a, ret.t))]
    /\ UNCHANGED <<subgraph, scopes, parent, phase, script, step, budget, panicked>>

NextAlg ==
    \/ Compose
    \/ Apply

SpecAlg == InitAlg /\ [][NextAlg]_vars

(***************************************************************************)
(* Several workers. Each worker holds its own instance of the same         *)
(* subgraph; a message put on a data channel reaches the instance of any   *)
(* worker, and the workers meet in send_and_recv once in every             *)
(* pull_internal_progress.                                                 *)
(***************************************************************************)
Workers == 0..(MaxWorkers - 1)

\* the graph the workers run: a graph input through one operator to a
\* graph output
CastScripts == {1}

\* every order in which the entries of `seq` may come
Orders(seq) ==
    {[k \in 1..Len(seq) |-> seq[p[k]]] : p \in Permutations(1..Len(seq))}

\* one builder call of a script applied to the subgraph
BuilderCall(g, call) ==
    CASE call.op = "new_input"       -> SubgraphNewInput(g)
      [] call.op = "new_output"      -> SubgraphNewOutput(g)
      [] call.op = "add_boxed_scope" -> SubgraphAddBoxedScope(g, Scope(call.scope))
      [] call.op = "connect"         -> SubgraphConnect(g, call.source, call.target)

\* the subgraph of script k built and sealed by a parent that promises the
\* frontier {0} on every input and reports no external summary:
\* [g, summaries, work, calls, frontier]
Sealed(k) ==
    LET s == GetInternalSummary(FoldSeq(BuilderCall, SubgraphNewFrom, Scripts[k]))
        frontier == VecNew(s.g.inputs, One(DefaultValue))
        e == SetExternalSummary(s.g, VecNew(s.g.outputs, VecNew(s.g.inputs, {})), frontier)
    IN  [g |-> e.g, summaries |-> s.summaries, work |-> s.work, calls |-> e.calls,
         frontier |-> frontier]

InitCast ==
    /\ script \in CastScripts
    /\ step = Len(Scripts[script])
    /\ \E s \in {Sealed(script)} :
         /\ subgraph = [w \in Workers |-> [s.g EXCEPT !.progcaster = ProgcasterNew(Workers)]]
         /\ scopes = [w \in Workers |->
                         [c \in DOMAIN s.g.children |->
                             Summarised(ScopeStart(Scope(s.g.children[c].scope)),
                                        s.calls[c])]]
         /\ parent = [w \in Workers |->
                         [summaries |-> s.summaries, capabilities |-> s.work,
                          frontier |-> s.frontier,
                          external |-> VecNew(s.g.outputs, VecNew(s.g.inputs, {}))]]
    /\ phase = [w \in Workers |-> "sealed"]
    /\ ret = [w \in Workers |-> NoReturn("set_external_summary")]
    /\ budget = [ingress |-> MaxCastIngress, sends |-> 0, spins |-> 0]
    /\ panicked = FALSE

\* worker w is between two calls on its subgraph
Idle(w) == phase[w] = "sealed" /\ ~panicked

\* an ingress nub of worker w passes one message or a batch of them into a
\* graph input; the data channel hands them to the instance of worker dest
CastIngress ==
    \E w \in Workers, dest \in Workers :
      /\ Idle(w) /\ budget.ingress > 0
      /\ \E input \in 0..(subgraph[w].inputs - 1), t \in {DefaultValue},
           n \in {1, MaxBatch} :
           /\ \E f \in DOMAIN parent[w].frontier[input] : f <= t
           /\ subgraph' = [subgraph EXCEPT ![w].input_messages[input] =
                              CountMapUpdate(@, <<t, DefaultValue>>, n)]
           /\ scopes' = [scopes EXCEPT ![dest] =
                            Deliver(@, subgraph[w].input_edges,
                                    [VecNew(subgraph[w].inputs, CountMapNew) EXCEPT
                                        ![input] = CountMapUpdate(CountMapNew,
                                                                  <<t, DefaultValue>>, n)])]
      /\ budget' = [budget EXCEPT !.ingress = @ - 1]
      /\ UNCHANGED <<parent, phase, script, step, ret, panicked>>

\* the children of worker w are pulled in turn, what they send going to the
\* instance of worker dest. st is [scopes, budget, reports]
RECURSIVE CastOutcomes(_, _, _, _)
CastOutcomes(w, dest, index, st) ==
    IF index >= VecLen(subgraph[w].children) THEN {st}
    ELSE UNION {CastOutcomes(w, dest, index + 1, next) :
                next \in {[scopes  |-> [[st.scopes EXCEPT ![w][index] = Progressed(o.scope)]
                                           EXCEPT ![dest] =
                                               Deliver(@, subgraph[w].children[index].edges,
                                                       o.sent)],
                           budget  |-> o.budget,
                           reports |-> VecPush(st.reports, o.report)] :
                             o \in ScopeOutcomes(subgraph[w].children[index],
                                                 st.scopes[w][index], st.budget)}}

\* what pull_internal_progress keeps in its frame while it waits in
\* send_and_recv
Frame(st) ==
    [op |-> "send_and_recv",
     internal_progress |-> st.internal_progress,
     messages_consumed |-> st.messages_consumed,
     messages_produced |-> st.messages_produced,
     active |-> st.active,
     subactive |-> st.subactive,
     pushes |-> st.pushes,
     absorbed |-> st.absorbed,
     fatal |-> st.fatal]

\* the frame taken up again on subgraph g
Resume(frame, g) ==
    [g |-> g,
     internal_progress |-> frame.internal_progress,
     messages_consumed |-> frame.messages_consumed,
     messages_produced |-> frame.messages_produced,
     active |-> frame.active,
     subactive |-> frame.subactive,
     pushes |-> frame.pushes,
     absorbed |-> frame.absorbed,
     fatal |-> frame.fatal]

\* worker w calls pull_internal_progress: steps 1 and 2, then send_and_recv
\* emits its two logs to every worker, itself included, and waits
CastSend ==
    \E w \in Workers, dest \in Workers :
      /\ Idle(w)
      /\ \E o \in CastOutcomes(w, dest, 0,
                                [scopes |-> scopes, budget |-> budget, reports |-> <<>>]) :
         \E st \in {PullBegin(subgraph[w], o.reports)} :
           /\ subgraph' = [v \in Workers |->
                              [(IF v = w
                                THEN [st.g EXCEPT !.pointstamp_messages = <<>>,
                                                  !.pointstamp_internal = <<>>]
                                ELSE subgraph[v])
                                  EXCEPT !.progcaster[w] =
                                      Append(@, [messages |-> st.g.pointstamp_messages,
                                                 internal |-> st.g.pointstamp_internal])]]
           /\ scopes' = o.scopes
           /\ budget' = o.budget
           /\ ret' = [ret EXCEPT ![w] = Frame(st)]
      /\ phase' = [phase EXCEPT ![w] = "send_and_recv"]
      /\ UNCHANGED <<parent, script, step, panicked>>

\* the batch of every worker that worker w takes in this send_and_recv
Batches(w) == [v \in Workers |-> Head(subgraph[w].progcaster[v])]

\* send_and_recv returns: the two logs are the concatenation of the batches
\* in the order `order` of the workers
SendAndRecvAmong(batches, order) ==
    [messages |-> FoldSeq(LAMBDA acc, v : acc \o batches[v].messages, <<>>, order),
     internal |-> FoldSeq(LAMBDA acc, v : acc \o batches[v].internal, <<>>, order)]

\* worker w waits in send_and_recv and a batch of every worker has arrived
Arrived(w) ==
    /\ phase[w] = "send_and_recv" /\ ~panicked
    /\ \A v \in Workers : subgraph[w].progcaster[v] # <<>>

\* pull_internal_progress of worker w from the return of send_and_recv on:
\* the batches come in the order `order`, the compacted logs are drained
\* as `messages` and `internal`
Absorbed(w, messages, internal) ==
    PullEnd(Resume(ret[w],
                   [subgraph[w] EXCEPT !.progcaster = [v \in Workers |-> Tail(@[v])]]),
            messages, internal)

\* send_and_recv of worker w returns and pull_internal_progress goes on to
\* its end. Neither the order of the batches nor the order in which a
\* CountMap gives back its entries is specified
CastRecv ==
    \E w \in Workers :
      /\ Arrived(w)
      /\ \E order \in Orders(SetToSeq(Workers)) :
         \E logs \in {SendAndRecvAmong(Batches(w), order)} :
         \E messages \in Orders(Compact(logs.messages)) :
         \E internal \in Orders(Compact(logs.internal)) :
         \E r \in {Absorbed(w, messages, internal)} :
           /\ subgraph' = [subgraph EXCEPT ![w] = r.g]
           /\ scopes' = [scopes EXCEPT ![w] = Told(@, r.pushes)]
           /\ parent' = [parent EXCEPT ![w].capabilities =
                            [output \in DOMAIN @ |->
                                CountMapAdd(@[output], r.internal_progress[output])]]
           /\ ret' = [ret EXCEPT ![w] =
                         [op |-> "pull_internal_progress",
                          active |-> r.active,
                          internal_progress |-> r.internal_progress,
                          batches |-> Batches(w),
                          pointstamp_messages |-> r.absorbed.messages,
                          pointstamp_internal |-> r.absorbed.internal]]
           /\ panicked' = r.fatal
      /\ phase' = [phase EXCEPT ![w] = "sealed"]
      /\ UNCHANGED <<script, step, budget>>

NextCast ==
    \/ CastIngress
    \/ CastSend
    \/ CastRecv

SpecCast == InitCast /\ [][NextCast]_vars

(***************************************************************************)
(* One MutableAntichain of a sealed subgraph, holding any counts, takes    *)
(* (t, +1) and then (t, -1) the way the subgraph applies updates to it:    *)
(* both in the logs of one call, or in two calls one after the other.      *)
(***************************************************************************)
\* the antichains of the subgraph: of input 0 and output 0 of child 0, and of
\* graph output 0
CancelKinds == {"outstanding_messages", "capabilities", "guarantees", "external_capability"}

\* every MutableAntichain over the times T with counts up to MaxCount
Counted(T) ==
    {[occurrences |-> [t \in {x \in T : f[x] > 0} |-> f[t]]] : f \in [T -> 0..MaxCount]}

\* the antichain of that kind in g, and g with ma in its place
Holder(g, kind) ==
    CASE kind = "outstanding_messages" -> g.children[0].outstanding_messages[0]
      [] kind = "capabilities"         -> g.children[0].capabilities[0]
      [] kind = "guarantees"           -> g.children[0].guarantees[0]
      [] kind = "external_capability"  -> g.external_capability[0]

Install(g, kind, ma) ==
    CASE kind = "outstanding_messages" -> [g EXCEPT !.children[0].outstanding_messages[0] = ma]
      [] kind = "capabilities"         -> [g EXCEPT !.children[0].capabilities[0] = ma]
      [] kind = "guarantees"           -> [g EXCEPT !.children[0].guarantees[0] = ma]
      [] kind = "external_capability"  -> [g EXCEPT !.external_capability[0] = ma]

\* the frontier the antichain of that kind exposes
FrontierOf(g, kind) ==
    IF kind = "external_capability"
    THEN OuterElements(Holder(g, kind))
    ELSE Elements(Holder(g, kind))

\* the updates (t, d), d in `deltas`, reach the antichain of that kind in one
\* call: as entries of a log of pull_internal_progress, or summed in the
\* CountMap handed to push_pointstamps or left in output_pushed.
\* [g, emitted, fatal], `emitted` being what the update's action was given
Updated(g, kind, t, deltas) ==
    LET log == [k \in 1..Len(deltas) |-> <<0, 0, t, deltas[k]>>]
        sum == FoldSeq(LAMBDA acc, d : CountMapUpdate(acc, t, d), CountMapNew, deltas)
    IN  CASE kind = "outstanding_messages" ->
               LET st == AbsorbEntries(PullFrame(g), Compact(log), <<>>)
               IN  [g |-> [st.g EXCEPT !.pointstamps.target_counts[0][0] = CountMapNew],
                    emitted |-> st.g.pointstamps.target_counts[0][0],
                    fatal |-> st.fatal]
          [] kind = "capabilities" ->
               LET st == AbsorbEntries(PullFrame(g), <<>>, Compact(log))
               IN  [g |-> [st.g EXCEPT !.pointstamps.source_counts[0][0] = CountMapNew],
                    emitted |-> st.g.pointstamps.source_counts[0][0],
                    fatal |-> st.fatal]
          [] kind = "guarantees" ->
               LET r == PushPointstamps(g.children[0], VecNew(1, sum))
               IN  [g |-> [g EXCEPT !.children[0] = r.child],
                    emitted |-> r.changes[0],
                    fatal |-> r.fatal]
          [] kind = "external_capability" ->
               LET st == PushToOutputs([PullFrame(g) EXCEPT
                                           !.g.pointstamps.output_pushed[0] = sum])
               IN  [g |-> st.g, emitted |-> st.internal_progress[0], fatal |-> st.fatal]

InitCancel ==
    /\ script = 1
    /\ step = Len(Scripts[script])
    /\ \E kind \in CancelKinds :
       \E ma \in IF kind = "external_capability"
                 THEN Counted(0..MaxOuter)
                 ELSE Counted((0..MaxOuter) \X (0..MaxInner)) :
         /\ subgraph = Install(Sealed(script).g, kind, ma)
         /\ ret \in [op : {"operands"}, kind : {kind}, same_call : BOOLEAN,
                      t : (0..MaxOuter) \X (0..MaxInner),
                      before : {FrontierOf(subgraph, kind)},
                      between : {FrontierOf(subgraph, kind)},
                      emitted : {CountMapNew}]
    /\ scopes = <<>>
    /\ parent = [summaries |-> <<>>, capabilities |-> <<>>, frontier |-> <<>>,
                 external |-> <<>>]
    /\ phase = "sealed"
    /\ budget = [ingress |-> 0, sends |-> 0, spins |-> 0]
    /\ panicked = FALSE

\* (t, +1) is applied; with same_call, (t, -1) comes in the same call
Raise ==
    /\ ret.op = "operands" /\ ~panicked
    /\ \E r \in {Updated(subgraph, ret.kind, ret.t,
                          IF ret.same_call THEN <<1, -1>> ELSE <<1>>)} :
         /\ subgraph' = r.g
         /\ ret' = [ret EXCEPT !.op = IF ret.same_call THEN "lowered" ELSE "raised",
                               !.between = FrontierOf(r.g, ret.kind),
                               !.emitted = r.emitted]
         /\ panicked' = r.fatal
    /\ UNCHANGED <<scopes, parent, phase, script, step, budget>>

\* (t, -1) is applied in a call of its own
Lower ==
    /\ ret.op = "raised" /\ ~panicked
    /\ \E r \in {Updated(subgraph, ret.kind, ret.t, <<-1>>)} :
         /\ subgraph' = r.g
         /\ ret' = [ret EXCEPT !.op = "lowered",
                               !.emitted = CountMapAdd(@, r.emitted)]
         /\ panicked' = r.fatal
    /\ UNCHANGED <<scopes, parent, phase, script, step, budget>>

NextCancel ==
    \/ Raise
    \/ Lower

SpecCancel == InitCancel /\ [][NextCancel]_vars

(***************************************************************************)
(* Builder programs with an edge that names something that does not exist: *)
(* the index expressions of connect and of get_internal_summary decide     *)
(* where, if anywhere, such a program ends fatally.                        *)
(***************************************************************************)
EdgeScripts ==
    << \* an edge from a graph input that new_input never created
       << [op |-> "new_input"], [op |-> "new_output"],
          [op |-> "add_boxed_scope", scope |-> "unary"],
          [op |-> "connect", source |-> GraphInput(0), target |-> ScopeInput(0, 0)],
          [op |-> "connect", source |-> ScopeOutput(0, 0), target |-> GraphOutput(0)],
          [op |-> "connect", source |-> GraphInput(1), target |-> ScopeInput(0, 0)] >>,
       \* an edge from a scope that was never added
       << [op |-> "new_output"],
          [op |-> "add_boxed_scope", scope |-> "input"],
          [op |-> "connect", source |-> ScopeOutput(1, 0), target |-> GraphOutput(0)] >>,
       \* an edge from an output port its scope does not have
       << [op |-> "new_output"],
          [op |-> "add_boxed_scope", scope |-> "input"],
          [op |-> "connect", source |-> ScopeOutput(0, 1), target |-> GraphOutput(0)] >>,
       \* an edge to a scope that was never added
       << [op |-> "new_output"],
          [op |-> "add_boxed_scope", scope |-> "input"],
          [op |-> "connect", source |-> ScopeOutput(0, 0), target |-> ScopeInput(1, 0)] >>,
       \* an edge to an input port its scope does not have
       << [op |-> "new_output"],
          [op |-> "add_boxed_scope", scope |-> "input"],
          [op |-> "add_boxed_scope", scope |-> "unary"],
          [op |-> "connect", source |-> ScopeOutput(0, 0), target |-> ScopeInput(1, 1)],
          [op |-> "connect", source |-> ScopeOutput(1, 0), target |-> GraphOutput(0)] >>,
       \* an edge to a graph output that new_output never created
       << [op |-> "new_input"], [op |-> "new_output"],
          [op |-> "add_boxed_scope", scope |-> "unary"],
          [op |-> "connect", source |-> GraphInput(0), target |-> ScopeInput(0, 0)],
          [op |-> "connect", source |-> ScopeOutput(0, 0), target |-> GraphOutput(1)] >>,
       \* the same in a graph without inputs, behind a scope that holds a
       \* capability
       << [op |-> "add_boxed_scope", scope |-> "input"],
          [op |-> "connect", source |-> ScopeOutput(0, 0), target |-> GraphOutput(0)] >>
    >>

\* the index expressions of connect and add_edge: children[scope] and
\* edges[output] are out of bounds
ConnectFails(g, source) ==
    /\ source.kind = "ScopeOutput"
    /\ \/ source.scope >= VecLen(g.children)
       \/ source.port >= VecLen(g.children[source.scope].edges)

\* the filter of the seeding loops reads children[t].notify
SeedFails(g, edges) ==
    \E k \in 1..Len(edges) :
        edges[k].kind = "ScopeInput" /\ edges[k].scope >= VecLen(g.children)

\* the seeding loops of set_summaries hit an index out of bounds; the second
\* reads input_edges[input] for every graph input
SeedAllFails(g) ==
    \/ \E scope \in DOMAIN g.children :
           \E output \in 0..(g.children[scope].outputs - 1) :
               SeedFails(g, g.children[scope].edges[output])
    \/ \E input \in 0..(g.inputs - 1) :
           \/ input >= VecLen(g.input_edges)
           \/ SeedFails(g, g.input_edges[input])

\* the index expressions of target_to_sources, read only inside its loops
TargetToSourcesFails(g, target) ==
    IF target.kind = "GraphOutput"
    THEN g.inputs > 0 /\ target.port >= VecLen(g.external_summaries)
    ELSE \/ target.scope >= VecLen(g.children)
         \/ /\ g.children[target.scope].outputs > 0
            /\ target.port >= VecLen(g.children[target.scope].summary)

\* the fixpoint loop of set_summaries calls target_to_sources for every edge
\* of every scope output and of every graph input
SummaryRoundFails(g) ==
    \/ \E scope \in DOMAIN g.children :
           \E output \in 0..(g.children[scope].outputs - 1) :
               \E k \in 1..Len(g.children[scope].edges[output]) :
                   TargetToSourcesFails(g, g.children[scope].edges[output][k])
    \/ \E input \in 0..(g.inputs - 1) :
           \E k \in 1..Len(g.input_edges[input]) :
               TargetToSourcesFails(g, g.input_edges[input][k])

\* `dest` of push_pointstamps_to_targets is out of bounds
DestFails(g, target) ==
    IF target.kind = "GraphOutput"
    THEN target.port >= VecLen(g.pointstamps.output_pushed)
    ELSE \/ target.scope >= VecLen(g.pointstamps.target_pushed)
         \/ target.port >= VecLen(g.pointstamps.target_pushed[target.scope])

\* push_pointstamps_to_targets while sealing: the only counts are the
\* capabilities of the children, and each is pushed along every summary of
\* its source
PushSealFails(g) ==
    \E scope \in DOMAIN g.children :
        \E output \in 0..(g.children[scope].outputs - 1) :
            /\ g.pointstamps.source_counts[scope][output] # CountMapNew
            /\ \E k \in 1..Len(g.source_summaries[scope][output]) :
                   DestFails(g, g.source_summaries[scope][output][k].target)

\* get_internal_summary ends fatally
SealFails(g) ==
    \E a \in {SeedCapabilities(AllocateSummaries(g))} :
        \/ SeedAllFails(a)
        \/ SummaryRoundFails(a)
        \/ PushSealFails(SetSummaries(a))

InitEdge ==
    /\ subgraph = SubgraphNewFrom
    /\ scopes = <<>>
    /\ parent = [summaries |-> <<>>, capabilities |-> <<>>, frontier |-> <<>>,
                 external |-> <<>>]
    /\ phase = "building"
    /\ script \in 1..Len(EdgeScripts)
    /\ step = 0
    /\ ret = NoReturn("new_from")
    /\ budget = [ingress |-> MaxIngress, sends |-> MaxSends, spins |-> MaxSpins]
    /\ panicked = FALSE

\* the next call of the builder program: new_input, new_output,
\* add_boxed_scope or connect
EdgeBuild ==
    /\ phase = "building" /\ ~panicked /\ step < Len(EdgeScripts[script])
    /\ \E call \in {EdgeScripts[script][step + 1]} :
         /\ IF call.op = "connect" /\ ConnectFails(subgraph, call.source)
            THEN /\ panicked' = TRUE
                 /\ UNCHANGED <<subgraph, scopes>>
            ELSE /\ subgraph' = BuilderCall(subgraph, call)
                 /\ scopes' = IF call.op = "add_boxed_scope"
                              THEN VecPush(scopes, ScopeStart(Scope(call.scope)))
                              ELSE scopes
                 /\ panicked' = FALSE
         /\ ret' = NoReturn(call.op)
    /\ step' = step + 1
    /\ UNCHANGED <<parent, phase, script, budget>>

\* the parent's ScopeWrapper::new asks for the summary
EdgeSeal ==
    /\ phase = "building" /\ ~panicked /\ step = Len(EdgeScripts[script])
    /\ IF SealFails(subgraph)
       THEN /\ panicked' = TRUE
            /\ UNCHANGED <<subgraph, parent, phase>>
       ELSE /\ \E r \in {GetInternalSummary(subgraph)} :
                 /\ subgraph' = r.g
                 /\ parent' = [parent EXCEPT !.summaries = r.summaries,
                                             !.capabilities = r.work]
            /\ phase' = "summarised"
            /\ panicked' = FALSE
    /\ ret' = NoReturn("get_internal_summary")
    /\ UNCHANGED <<scopes, script, step, budget>>

NextEdge ==
    \/ EdgeBuild
    \/ EdgeSeal
    \/ SetExternal
    \/ Ingress
    \/ PushExternal
    \/ Pull

SpecEdge == InitEdge /\ [][NextEdge]_vars

(***************************************************************************)
(* A driver that pulls before get_internal_summary has sealed the          *)
(* subgraph: the vectors of the PointstampCounter are still empty, and the *)
(* index expressions of pull_internal_progress decide whether the call     *)
(* ends fatally.                                                           *)
(***************************************************************************)
\* push_pointstamps_to_targets reads target_counts[index] for every child
\* and input_counts[input] for every graph input, step 4 reads
\* output_pushed[output] for every graph output: one of them is out of bounds
PullIndexFails(g) ==
    \/ \E index \in DOMAIN g.children : index >= VecLen(g.pointstamps.target_counts)
    \/ \E input \in 0..(g.inputs - 1) : input >= VecLen(g.pointstamps.input_counts)
    \/ \E output \in 0..(g.outputs - 1) : output >= VecLen(g.pointstamps.output_pushed)

\* pull_internal_progress is called while the graph is still being built
EarlyPull ==
    /\ phase = "building" /\ ~panicked
    /\ IF PullIndexFails(subgraph)
       THEN /\ panicked' = TRUE
            /\ ret' = NoReturn("pull_internal_progress")
            /\ UNCHANGED subgraph
       ELSE \E r \in {PullInternalProgress(subgraph, <<>>)} :
              /\ subgraph' = r.g
              /\ ret' = [NoReturn("pull_internal_progress") EXCEPT
                            !.active = r.active,
                            !.internal_progress = r.internal_progress,
                            !.messages_consumed = r.messages_consumed,
                            !.messages_produced = r.messages_produced]
              /\ panicked' = r.fatal
    /\ UNCHANGED <<scopes, parent, phase, script, step, budget>>

NextEarly ==
    \/ NewInput
    \/ NewOutput
    \/ AddBoxedScope
    \/ Connect
    \/ EarlyPull
    \/ Seal
    \/ SetExternal
    \/ Ingress
    \/ PushExternal
    \/ Pull

SpecEarly == Init /\ [][NextEarly]_vars

(***************************************************************************)
(* A child that breaks the contract: in one of its answers to              *)
(* pull_internal_progress it reports a capability dropped, or a message    *)
(* taken back, that the subgraph may never have counted.                   *)
(***************************************************************************)
RogueKinds == {"internal", "produced"}

\* the report of a child with one more update of -1 at `time` on `port`
Tampered(report, kind, port, time) ==
    IF kind = "internal"
    THEN [report EXCEPT !.internal_progress[port] = CountMapUpdate(@, time, -1)]
    ELSE [report EXCEPT !.produced_messages[port] = CountMapUpdate(@, time, -1)]

\* the driver pulls, and child c answers with a tampered report
PullRogue ==
    \E o \in PullOutcomes(0, [scopes |-> scopes, budget |-> budget, reports |-> <<>>]) :
    \E c \in DOMAIN o.reports, kind \in RogueKinds :
    \E port \in 0..(subgraph.children[c].outputs - 1) :
    \E time \in {DefaultValue} \X (0..MaxInner) :
        PullWith([o EXCEPT !.reports[c] = Tampered(@, kind, port, time)])

NextRogue ==
    \/ NewInput
    \/ NewOutput
    \/ AddBoxedScope
    \/ Connect
    \/ Seal
    \/ SetExternal
    \/ Ingress
    \/ PushExternal
    \/ Pull
    \/ PullRogue

SpecRogue == Init /\ [][NextRogue]_vars

(***************************************************************************)
(* A builder that goes on after sealing: connect does not look at whether  *)
(* get_internal_summary has been called.                                   *)
(***************************************************************************)
\* the sources that exist in g
Sources(g) ==
    {GraphInput(input) : input \in 0..(g.inputs - 1)} \cup
    UNION {{ScopeOutput(c, output) : output \in 0..(g.children[c].outputs - 1)} :
              c \in DOMAIN g.children}

\* the late edge leads to a graph output, so that it closes no cycle
Targets(g) == {GraphOutput(output) : output \in 0..(g.outputs - 1)}

\* the number of edges g holds
EdgeCount(g) ==
    FoldRange(LAMBDA n, input : n + Len(g.input_edges[input]), 0, 0, VecLen(g.input_edges))
    + FoldRange(LAMBDA n, c :
                    FoldRange(LAMBDA m, output : m + Len(g.children[c].edges[output]),
                              n, 0, VecLen(g.children[c].edges)),
                0, 0, VecLen(g.children))

\* the number of connect calls of builder program k
ConnectCalls(k) == Len(SelectSeq(Scripts[k], LAMBDA call : call.op = "connect"))

\* connect is called once more, on the subgraph that set_external_summary has
\* just sealed
LateConnect ==
    /\ Running
    /\ ret.op = "set_external_summary"
    /\ \E source \in Sources(subgraph), target \in Targets(subgraph) :
           subgraph' = SubgraphConnect(subgraph, source, target)
    /\ ret' = NoReturn("connect")
    /\ UNCHANGED <<scopes, parent, phase, script, step, budget, panicked>>

NextLate ==
    \/ NewInput
    \/ NewOutput
    \/ AddBoxedScope
    \/ Connect
    \/ Seal
    \/ SetExternal
    \/ Ingress
    \/ PushExternal
    \/ Pull
    \/ LateConnect

SpecLate == Init /\ [][NextLate]_vars

(***************************************************************************)
(* The boundary of a subgraph: a stream enters through an IngressNub and   *)
(* leaves through an EgressNub. `scopes` holds what the four observers     *)
(* along the way have seen: the events the outer stream hands the ingress  *)
(* (sent), those the ingress hands on inside (inner), those an inner       *)
(* operator hands the egress (fed) and those the egress hands its target   *)
(* (outer).                                                                *)
(***************************************************************************)
\* the longest stream the source sends
MaxEvents == 4

\* the data items of the stream
NubData == {"a", "b"}

\* IngressNub as an Observer: open and shut take (time, default), push takes
\* the datum as it is
IngressNubEvent(e) ==
    IF e.kind = "push" THEN e ELSE [e EXCEPT !.time = <<e.time, DefaultValue>>]

\* an egress that hands on the inner coordinate
EgressNubInner(e) ==
    IF e.kind = "push" THEN e ELSE [e EXCEPT !.time = e.time[2]]

\* EgressNub as an Observer: open and shut take time.0, push takes the datum
\* as it is
EgressNubEvent(e) ==
    IF e.kind = "push" THEN e ELSE [e EXCEPT !.time = OuterOf(e.time)]

InitNub ==
    /\ subgraph = SubgraphNewFrom
    /\ scopes = [sent |-> <<>>, inner |-> <<>>, fed |-> <<>>, outer |-> <<>>,
                 open |-> FALSE, time |-> DefaultValue, coordinate |-> DefaultValue]
    /\ parent = [summaries |-> <<>>, capabilities |-> <<>>, frontier |-> <<>>]
    /\ phase = "boundary"
    /\ script = 1
    /\ step = 0
    /\ ret = [op |-> "add_input"]
    /\ budget = [ingress |-> 0, sends |-> 0, spins |-> 0]
    /\ panicked = FALSE

\* the outer stream hands event e to the ingress, which hands it on
IngressTakes(e) ==
    /\ scopes' = [scopes EXCEPT !.sent = Append(@, e),
                                !.inner = Append(@, IngressNubEvent(e)),
                                !.open = (e.kind # "shut"),
                                !.time = IF e.kind = "push" THEN @ ELSE e.time]
    /\ ret' = [op |-> e.kind]
    /\ step' = step + 1
    /\ UNCHANGED <<subgraph, parent, phase, script, budget, panicked>>

\* IngressNub::open
NubOpen ==
    /\ step < MaxEvents /\ ~scopes.open
    /\ \E t \in 0..MaxOuter : IngressTakes([kind |-> "open", time |-> t])

\* IngressNub::push
NubPush ==
    /\ step < MaxEvents /\ scopes.open
    /\ \E d \in NubData : IngressTakes([kind |-> "push", data |-> d])

\* IngressNub::shut
NubShut ==
    /\ step < MaxEvents /\ scopes.open
    /\ IngressTakes([kind |-> "shut", time |-> scopes.time])

\* the inner operator hands the next event it has seen to the egress, a frame
\* opened at an inner coordinate of its choice and shut at the same one; the
\* egress hands it to its target
NubEgress ==
    /\ Len(scopes.fed) < Len(scopes.inner)
    /\ \E e \in {scopes.inner[Len(scopes.fed) + 1]} :
       \E i \in IF e.kind = "open" THEN 0..MaxInner ELSE {scopes.coordinate} :
       \E f \in {IF e.kind = "push" THEN e ELSE [e EXCEPT !.time = <<e.time[1], i>>]} :
           scopes' = [scopes EXCEPT !.fed = Append(@, f),
                                    !.outer = Append(@, EgressNubEvent(f)),
                                    !.coordinate = i]
    /\ ret' = [op |-> "egress"]
    /\ UNCHANGED <<subgraph, parent, phase, script, step, budget, panicked>>

NextNub ==
    \/ NubOpen
    \/ NubPush
    \/ NubShut
    \/ NubEgress

SpecNub == InitNub /\ [][NextNub]_vars

(***************************************************************************)
(* ScopeWrapper::pull_pointstamps on its own: a sealed subgraph, one of    *)
(* its children, and an answer of that child's scope drawn from a small    *)
(* set of buffers; the action is one call with fresh logs.                 *)
(***************************************************************************)

\* what a buffer of the child's answer may hold
RouteMaps ==
    {CountMapNew,
     One(<<0, 0>>),
     CountMapUpdate(CountMapUpdate(CountMapNew, <<0, 0>>, 2), <<1, 1>>, -1)}

\* the answers of a child's scope.pull_internal_progress
RouteReports(child) ==
    [internal_progress : [0..(child.outputs - 1) -> RouteMaps],
     consumed_messages : [0..(child.inputs - 1) -> RouteMaps],
     produced_messages : [0..(child.outputs - 1) -> RouteMaps],
     active : BOOLEAN]

InitRoute ==
    /\ script \in 1..Len(Scripts)
    /\ subgraph = Sealed(script).g
    /\ step \in DOMAIN subgraph.children
    /\ \E report \in RouteReports(subgraph.children[step]) :
           ret = [op |-> "scope.pull_internal_progress", report |-> report]
    /\ scopes = <<>>
    /\ parent = [summaries |-> <<>>, capabilities |-> <<>>, frontier |-> <<>>]
    /\ phase = "sealed"
    /\ budget = [ingress |-> 0, sends |-> 0, spins |-> 0]
    /\ panicked = FALSE

\* one call of pull_pointstamps on child `step`, with empty logs and the
\* output callback of pull_internal_progress
RoutePull ==
    /\ ret.op = "scope.pull_internal_progress"
    /\ \E r \in {PullPointstamps(PullFrame(subgraph), step, ret.report)} :
         /\ subgraph' = r.g
         /\ ret' = [op |-> "pull_pointstamps",
                    report |-> ret.report,
                    messages |-> r.g.pointstamp_messages,
                    internal |-> r.g.pointstamp_internal,
                    produced |-> r.messages_produced,
                    active |-> r.subactive[VecLen(r.subactive) - 1]]
    /\ UNCHANGED <<scopes, parent, phase, script, step, budget, panicked>>

NextRoute == RoutePull

SpecRoute == InitRoute /\ [][NextRoute]_vars

(***************************************************************************)
(* Step 1 of pull_internal_progress on its own: a sealed subgraph with a   *)
(* graph input, possibly with edges from the input straight to the graph   *)
(* output, and a shared input counter as ingress nubs leave it (outer      *)
(* time, default inner coordinate); the action is the step with fresh      *)
(* buffers of the parent.                                                  *)
(***************************************************************************)

\* the builder programs with a graph input
InputScripts == {k \in 1..Len(Scripts) : \E c \in 1..Len(Scripts[k]) : Scripts[k][c].op = "new_input"}

\* edges from graph input 0 to graph output 0 added at the end of a program
StraightEdges ==
    {<<>>,
     <<[op |-> "connect", source |-> GraphInput(0), target |-> GraphOutput(0)]>>,
     <<[op |-> "connect", source |-> GraphInput(0), target |-> GraphOutput(0)],
       [op |-> "connect", source |-> GraphInput(0), target |-> GraphOutput(0)]>>}

\* what the shared counter of a graph input may hold
InputCounts ==
    {FoldRange(LAMBDA cm, t : CountMapUpdate(cm, <<t, DefaultValue>>, m[t]),
               CountMapNew, 0, MaxCoord + 1) : m \in [0..MaxCoord -> 0..MaxCount]}

InitStep1 ==
    /\ script \in InputScripts
    /\ \E extra \in StraightEdges, counts \in InputCounts :
       \E s \in {GetInternalSummary(FoldSeq(BuilderCall, SubgraphNewFrom, Scripts[script] \o extra))} :
       \E e \in {SetExternalSummary(s.g, VecNew(s.g.outputs, VecNew(s.g.inputs, {})),
                                    VecNew(s.g.inputs, One(DefaultValue)))} :
         /\ subgraph = [e.g EXCEPT !.input_messages = VecNew(e.g.inputs, counts)]
         /\ ret = [op |-> "ingress", counts |-> VecNew(e.g.inputs, counts)]
    /\ step = Len(Scripts[script])
    /\ scopes = <<>>
    /\ parent = [summaries |-> <<>>, capabilities |-> <<>>, frontier |-> <<>>]
    /\ phase = "sealed"
    /\ budget = [ingress |-> 0, sends |-> 0, spins |-> 0]
    /\ panicked = FALSE

\* step 1 of pull_internal_progress
Step1 ==
    /\ ret.op = "ingress"
    /\ \E r \in {PullInputMessages(PullFrame(subgraph))} :
         /\ subgraph' = r.g
         /\ ret' = [op |-> "step 1",
                    counts |-> ret.counts,
                    messages |-> r.g.pointstamp_messages,
                    consumed |-> r.messages_consumed,
                    produced |-> r.messages_produced]
    /\ UNCHANGED <<scopes, parent, phase, script, step, budget, panicked>>

NextStep1 == Step1

SpecStep1 == InitStep1 /\ [][NextStep1]_vars

(***************************************************************************)
(* The order of summaries against their action on times: two summaries and *)
(* a time from the pool, compared, applied, and added one after the other  *)
(* to the summary list of a target.                                        *)
(***************************************************************************)

\* a.results_in(t) and b.results_in(t)
Compare ==
    /\ ret.op = "operands"
    /\ ret' = [op       |-> "partial_cmp",
               a        |-> ret.a,
               b        |-> ret.b,
               t        |-> ret.t,
               a_le_b   |-> SummaryLeq(ret.a, ret.b),
               a_t      |-> ResultsIn(ret.a, ret.t),
               b_t      |-> ResultsIn(ret.b, ret.t)]
    /\ UNCHANGED <<subgraph, scopes, parent, phase, script, step, budget, panicked>>

\* try_to_add_summary of b and then of a for one target of an empty list
AddBoth ==
    /\ ret.op = "operands"
    /\ \E first \in {TryToAddSummary(<<>>, GraphOutput(0), ret.b)} :
       \E second \in {TryToAddSummary(first.vector, GraphOutput(0), ret.a)} :
           ret' = [op     |-> "try_to_add_summary",
                   a      |-> ret.a,
                   b      |-> ret.b,
                   t      |-> ret.t,
                   added  |-> second.added,
                   vector |-> second.vector]
    /\ UNCHANGED <<subgraph, scopes, parent, phase, script, step, budget, panicked>>

NextOrder ==
    \/ Compare
    \/ AddBoth

SpecOrder == InitAlg /\ [][NextOrder]_vars

(***************************************************************************)
(* Graphs in which two capabilities reach the same graph output: built by  *)
(* their builder calls, then sealed and driven by the parent as in Spec.   *)
(***************************************************************************)
TwinScripts ==
    << \* two sources feed the graph output
       << [op |-> "new_output"],
          [op |-> "add_boxed_scope", scope |-> "input"],
          [op |-> "add_boxed_scope", scope |-> "input"],
          [op |-> "connect", source |-> ScopeOutput(0, 0), target |-> GraphOutput(0)],
          [op |-> "connect", source |-> ScopeOutput(1, 0), target |-> GraphOutput(0)] >>,
       \* a source behind an operator that adds one iteration and holds a
       \* capability of its own
       << [op |-> "new_output"],
          [op |-> "add_boxed_scope", scope |-> "input"],
          [op |-> "add_boxed_scope", scope |-> "iterate"],
          [op |-> "connect", source |-> ScopeOutput(0, 0), target |-> ScopeInput(1, 0)],
          [op |-> "connect", source |-> ScopeOutput(1, 0), target |-> GraphOutput(0)] >>
    >>

InitTwin ==
    /\ subgraph = SubgraphNewFrom
    /\ scopes = <<>>
    /\ parent = [summaries |-> <<>>, capabilities |-> <<>>, frontier |-> <<>>,
                 external |-> <<>>]
    /\ phase = "building"
    /\ script \in 1..Len(TwinScripts)
    /\ step = 0
    /\ ret = NoReturn("new_from")
    /\ budget = [ingress |-> MaxIngress, sends |-> MaxSends, spins |-> MaxSpins]
    /\ panicked = FALSE

\* the next builder call of the program
TwinBuild ==
    /\ phase = "building" /\ ~panicked /\ step < Len(TwinScripts[script])
    /\ \E call \in {TwinScripts[script][step + 1]} :
         /\ subgraph' = BuilderCall(subgraph, call)
         /\ scopes' = IF call.op = "add_boxed_scope"
                      THEN VecPush(scopes, ScopeStart(Scope(call.scope)))
                      ELSE scopes
         /\ ret' = NoReturn(call.op)
    /\ step' = step + 1
    /\ UNCHANGED <<parent, phase, script, budget, panicked>>

\* the parent's ScopeWrapper::new asks for the summary and keeps the work
TwinSeal ==
    /\ phase = "building" /\ ~panicked /\ step = Len(TwinScripts[script])
    /\ \E r \in {GetInternalSummary(subgraph)} :
         /\ subgraph' = r.g
         /\ parent' = [parent EXCEPT !.summaries = r.summaries,
                                     !.capabilities = r.work]
    /\ phase' = "summarised"
    /\ ret' = NoReturn("get_internal_summary")
    /\ UNCHANGED <<scopes, script, step, budget, panicked>>

NextTwin ==
    \/ TwinBuild
    \/ TwinSeal
    \/ SetExternal
    \/ Pull

SpecTwin == InitTwin /\ [][NextTwin]_vars

(***************************************************************************)
(* A builder that makes any sequence of at most MaxCalls calls of          *)
(* new_input, new_output, add_boxed_scope and connect, every connect       *)
(* between ports that exist, and then asks for the summary.                *)
(***************************************************************************)
MaxCalls == 5

\* the scopes the free builder adds
FreeScopes == {"unary", "sink", "input"}

\* the targets that exist in g
ExistingTargets(g) ==
    {GraphOutput(output) : output \in 0..(g.outputs - 1)} \cup
    UNION {{ScopeInput(c, input) : input \in 0..(g.children[c].inputs - 1)} :
              c \in DOMAIN g.children}

FreeCalling == phase = "building" /\ ~panicked /\ step < MaxCalls

FreeNewInput ==
    /\ FreeCalling
    /\ subgraph' = SubgraphNewInput(subgraph)
    /\ step' = step + 1
    /\ ret' = NoReturn("new_input")
    /\ UNCHANGED <<scopes, parent, phase, script, budget, panicked>>

FreeNewOutput ==
    /\ FreeCalling
    /\ subgraph' = SubgraphNewOutput(subgraph)
    /\ step' = step + 1
    /\ ret' = NoReturn("new_output")
    /\ UNCHANGED <<scopes, parent, phase, script, budget, panicked>>

FreeAddBoxedScope ==
    /\ FreeCalling
    /\ \E name \in FreeScopes :
         /\ subgraph' = SubgraphAddBoxedScope(subgraph, Scope(name))
         /\ scopes' = VecPush(scopes, ScopeStart(Scope(name)))
    /\ step' = step + 1
    /\ ret' = NoReturn("add_boxed_scope")
    /\ UNCHANGED <<parent, phase, script, budget, panicked>>

FreeConnect ==
    /\ FreeCalling
    /\ \E source \in Sources(subgraph), target \in ExistingTargets(subgraph) :
           subgraph' = SubgraphConnect(subgraph, source, target)
    /\ step' = step + 1
    /\ ret' = NoReturn("connect")
    /\ UNCHANGED <<scopes, parent, phase, script, budget, panicked>>

\* get_internal_summary, which ends fatally at the first index out of bounds
FreeSeal ==
    /\ phase = "building" /\ ~panicked
    /\ IF SealFails(subgraph)
       THEN /\ panicked' = TRUE
            /\ UNCHANGED <<subgraph, parent, phase>>
       ELSE /\ \E r \in {GetInternalSummary(subgraph)} :
                 /\ subgraph' = r.g
                 /\ parent' = [parent EXCEPT !.summaries = r.summaries,
                                             !.capabilities = r.work]
            /\ phase' = "summarised"
            /\ panicked' = FALSE
    /\ ret' = NoReturn("get_internal_summary")
    /\ UNCHANGED <<scopes, script, step, budget>>

NextFree ==
    \/ FreeNewInput
    \/ FreeNewOutput
    \/ FreeAddBoxedScope
    \/ FreeConnect
    \/ FreeSeal
    \/ SetExternal

InitFree ==
    /\ subgraph = SubgraphNewFrom
    /\ scopes = <<>>
    /\ parent = [summaries |-> <<>>, capabilities |-> <<>>, frontier |-> <<>>,
                 external |-> <<>>]
    /\ phase = "building"
    /\ script = 1
    /\ step = 0
    /\ ret = NoReturn("new_from")
    /\ budget = [ingress |-> MaxIngress, sends |-> MaxSends, spins |-> MaxSpins]
    /\ panicked = FALSE

SpecFree == InitFree /\ [][NextFree]_vars

(***************************************************************************)
(* Nested subgraphs under construction. `subgraph` is the parent;          *)
(* `scopes` holds the subgraphs that new_subgraph has handed out: the      *)
(* index stored in each, its inputs and outputs, the names of the streams  *)
(* that leave it, and the child index it got from add_boxed_scope (-1      *)
(* until it is added).                                                     *)
(***************************************************************************)
MaxNest == 5

MaxSubgraphs == 2

NestCalling == phase = "building" /\ ~panicked /\ step < MaxNest

\* Graph::new_subgraph: a fresh subgraph that stores the number of children
\* the parent has now
NestNewSubgraph ==
    /\ NestCalling /\ Len(scopes) < MaxSubgraphs
    /\ scopes' = Append(scopes, [index |-> VecLen(subgraph.children),
                                 inputs |-> 0, outputs |-> 0,
                                 streams |-> <<>>, child |-> -1])
    /\ step' = step + 1
    /\ ret' = NoReturn("new_subgraph")
    /\ UNCHANGED <<subgraph, parent, phase, script, budget, panicked>>

\* Graph::add_boxed_scope of an operator of the parent
NestAddOperator ==
    /\ NestCalling
    /\ subgraph' = SubgraphAddBoxedScope(subgraph, Scope("unary"))
    /\ step' = step + 1
    /\ ret' = NoReturn("add_boxed_scope")
    /\ UNCHANGED <<scopes, parent, phase, script, budget, panicked>>

\* GraphBoundary::add_input: a stream of the parent enters subgraph k, which
\* gets a new input; the parent connects the stream to
\* ScopeInput(subgraph.index, input)
NestAddInput ==
    /\ NestCalling
    /\ \E k \in DOMAIN scopes, source \in Sources(subgraph) :
         /\ scopes[k].child = -1
         /\ subgraph' = SubgraphConnect(subgraph, source,
                                        ScopeInput(scopes[k].index, scopes[k].inputs))
         /\ scopes' = [scopes EXCEPT ![k].inputs = @ + 1]
    /\ step' = step + 1
    /\ ret' = NoReturn("add_input")
    /\ UNCHANGED <<parent, phase, script, budget, panicked>>

\* GraphBoundary::add_output_to_graph: a stream leaves subgraph k, which gets
\* a new output; the stream is named ScopeOutput(subgraph.index, output) in
\* the parent
NestAddOutput ==
    /\ NestCalling
    /\ \E k \in DOMAIN scopes :
         /\ scopes[k].child = -1
         /\ scopes' = [scopes EXCEPT ![k].outputs = @ + 1,
                                     ![k].streams = Append(@, ScopeOutput(scopes[k].index,
                                                                          scopes[k].outputs))]
    /\ step' = step + 1
    /\ ret' = NoReturn("add_output_to_graph")
    /\ UNCHANGED <<subgraph, parent, phase, script, budget, panicked>>

\* the subgraph as the boxed scope it is added as; nothing is inside it yet
NestedScope(handle) ==
    [name |-> "subgraph", inputs |-> handle.inputs, outputs |-> handle.outputs,
     notify |-> TRUE,
     summary |-> VecNew(handle.inputs, VecNew(handle.outputs, {})),
     work |-> VecNew(handle.outputs, CountMapNew)]

\* graph.add_scope(subgraph): Graph::add_boxed_scope gives it the number of
\* children the parent has now
NestAddSubgraph ==
    /\ NestCalling
    /\ \E k \in DOMAIN scopes :
         /\ scopes[k].child = -1
         /\ subgraph' = SubgraphAddBoxedScope(subgraph, NestedScope(scopes[k]))
         /\ scopes' = [scopes EXCEPT ![k].child = VecLen(subgraph.children)]
    /\ step' = step + 1
    /\ ret' = NoReturn("add_scope")
    /\ UNCHANGED <<parent, phase, script, budget, panicked>>

NextNest ==
    \/ NestNewSubgraph
    \/ NestAddOperator
    \/ NestAddInput
    \/ NestAddOutput
    \/ NestAddSubgraph

SpecNest == InitFree /\ [][NextNest]_vars

(***************************************************************************)
(* Properties.                                                             *)
(***************************************************************************)
\* the last call was a pull_internal_progress that returned
Pulled == ret.op = "pull_internal_progress" /\ ~panicked

\* the outer times the parent counts as held on graph output o: the work it
\* was returned plus every internal_progress it has pulled
Reported(o) == {t \in DOMAIN parent.capabilities[o] : parent.capabilities[o][t] > 0}

\* the subgraph has reported, and mirrors, a time no later than x on output o
HeldBack(o, x) ==
    /\ \E e \in Reported(o) : e <= x
    /\ \E e \in OuterElements(subgraph.external_capability[o]) : e <= x

\* every summary of `list` that leads to graph output o, applied to time t,
\* gives a time the reported frontier of o has not passed
Covered(list, o, t) ==
    \A k \in 1..Len(list) :
        list[k].target = GraphOutput(o) =>
            \A s \in list[k].antichain : HeldBack(o, OuterOf(ResultsIn(s, t)))

\* C1: after every completed pull_internal_progress, for every graph output
\* o, every capability a child holds at t on an output and every message in
\* flight at t on a child input from which GraphOutput(o) is reachable with
\* summary s is covered by the output frontier reported to the parent (the
\* initial work plus all internal_progress, mirrored in
\* external_capability[o]): it has an element <= the outer coordinate of
\* s.results_in(t).
C1_OutputFrontierSafe ==
    Pulled =>
        \A o \in 0..(subgraph.outputs - 1) : \A c \in DOMAIN scopes :
            /\ \A output \in DOMAIN scopes[c].held : \A t \in DOMAIN scopes[c].held[output] :
                   Covered(subgraph.source_summaries[c][output], o, t)
            /\ \A input \in DOMAIN scopes[c].chan : \A t \in DOMAIN scopes[c].chan[input] :
                   Covered(subgraph.target_summaries[c][input], o, t)

\* a pull has returned with a message in flight at outer time 1 behind a
\* graph output whose reported frontier has moved to {1}, and another with a
\* capability held behind a graph output
C1_Witness ==
    /\ Pulled
    /\ \E c \in DOMAIN scopes : \E input \in DOMAIN scopes[c].chan :
           /\ <<1, DefaultValue>> \in DOMAIN scopes[c].chan[input]
           /\ \E k \in 1..Len(subgraph.target_summaries[c][input]) :
                  subgraph.target_summaries[c][input][k].target = GraphOutput(0)
    /\ Reported(0) = {1}

\* the times at which input i of child d may still see data because of time
\* t at the head of the summary list `list`
Lands(list, d, i, t) ==
    UNION {{ResultsIn(s, t) : s \in list[k].antichain} :
              k \in {k \in 1..Len(list) : list[k].target = ScopeInput(d, i)}}

\* ... because of the capabilities the scopes hold
CapabilityLands(d, i) ==
    UNION {UNION {UNION {Lands(subgraph.source_summaries[c][output], d, i, t) :
                            t \in DOMAIN scopes[c].held[output]} :
                     output \in DOMAIN scopes[c].held} :
              c \in DOMAIN scopes}

\* ... because of the messages in flight to the scopes
MessageLands(d, i) ==
    UNION {UNION {UNION {Lands(subgraph.target_summaries[c][input], d, i, t) :
                            t \in DOMAIN scopes[c].chan[input]} :
                     input \in DOMAIN scopes[c].chan} :
              c \in DOMAIN scopes}

\* ... because of the frontier the parent has promised for the graph inputs
FrontierLands(d, i) ==
    UNION {UNION {Lands(subgraph.input_summaries[input], d, i, <<f, DefaultValue>>) :
                     f \in DOMAIN parent.frontier[input]} :
              input \in DOMAIN parent.frontier}

MinTimes(S) == {t \in S : \A u \in S : TimeLeq(u, t) => u = t}

\* the frontier the wrapper of child d holds for its input i
GuaranteeFrontier(d, i) == Elements(subgraph.children[d].guarantees[i])

\* C2: for every input of a notifying child reachable from a child output
\* through a summary s, while the source holds a capability at t the
\* guarantee frontier of the input has an element <= s.results_in(t); the
\* frontier is exactly the minimal times still held back (so it moves
\* forward once a dropped capability is absorbed), and the child has been
\* told every change of it.
C2_GuaranteeFollowsCapabilities ==
    (phase = "sealed" /\ ~panicked) =>
        \A d \in DOMAIN scopes :
            subgraph.children[d].notify =>
                \A i \in DOMAIN scopes[d].told :
                    /\ \A x \in CapabilityLands(d, i) :
                           \E e \in GuaranteeFrontier(d, i) : TimeLeq(e, x)
                    /\ GuaranteeFrontier(d, i) =
                           MinTimes(CapabilityLands(d, i) \cup MessageLands(d, i)
                                        \cup FrontierLands(d, i))
                    /\ scopes[d].told[i] = [t \in GuaranteeFrontier(d, i) |-> 1]

\* a source has given up its capability at (0, 0) for one at (0, 1); the pull
\* that absorbed it moved the guarantee of the scope behind it and told it
C2_Witness ==
    /\ Pulled /\ script = 2
    /\ scopes[0].held[0] = One(<<0, 1>>)
    /\ GuaranteeFrontier(1, 0) = {<<0, 1>>}
    /\ ret.pushes[1].pushed
    /\ ret.pushes[1].changes[0] = (<<0, 0>> :> -1) @@ (<<0, 1>> :> 1)

\* the messages delivered through the graph inputs toward input i of child
\* c, once per edge, that the subgraph has not pulled yet
Unpulled(c, i) ==
    FoldRange(LAMBDA acc, input :
                  FoldSeq(LAMBDA acc2, target :
                              IF target = ScopeInput(c, i)
                              THEN CountMapAdd(acc2, subgraph.input_messages[input])
                              ELSE acc2,
                          acc, subgraph.input_edges[input]),
              CountMapNew, 0, subgraph.inputs)

\* C3: message conservation. For every child c, input i and time t, the count
\* of t in outstanding_messages[c][i] (plus what waits in the graph inputs'
\* counters before a pull, and nothing after one) is the number of messages
\* at t produced toward (c, i), once per edge, minus the number child c
\* reported consumed on i.
C3_MessageConservation ==
    (phase = "sealed" /\ ~panicked) =>
        \A c \in DOMAIN scopes : \A i \in DOMAIN scopes[c].chan :
            /\ CountMapAdd(subgraph.children[c].outstanding_messages[i].occurrences,
                           Unpulled(c, i)) = scopes[c].chan[i]
            /\ Pulled => Unpulled(c, i) = CountMapNew

\* the message of the graph input was consumed and passed on by the first
\* scope of the loop, and now waits at the second
C3_Witness ==
    /\ Pulled /\ script = 5 /\ budget.ingress = 0
    /\ scopes[0].chan[0] = CountMapNew
    /\ scopes[1].chan[0] = One(<<0, 0>>)
    /\ subgraph.children[1].outstanding_messages[0].occurrences = One(<<0, 0>>)

\* every frontier of outstanding messages and of capabilities is empty
AllEmpty ==
    \A c \in DOMAIN subgraph.children :
        /\ \A i \in DOMAIN subgraph.children[c].outstanding_messages :
               Elements(subgraph.children[c].outstanding_messages[i]) = {}
        /\ \A o \in DOMAIN subgraph.children[c].capabilities :
               Elements(subgraph.children[c].capabilities[o]) = {}

\* C5: pull_internal_progress returns false exactly when every child
\* answered active = false in this call and every frontier of outstanding
\* messages and of capabilities is empty at its exit; a false return means
\* that no message is in flight and no capability is held.
C5_ActiveIffWorkLeft ==
    Pulled =>
        /\ (ret.active = FALSE) <=>
               ((\A c \in DOMAIN ret.subactive : ret.subactive[c] = FALSE) /\ AllEmpty)
        /\ (ret.active = FALSE) => \A c \in DOMAIN scopes : ~Pending(scopes[c])

\* the message of the graph input has gone through and a pull returned false
C5_Witness ==
    /\ Pulled /\ script = 1 /\ budget.ingress = 0
    /\ ret.active = FALSE

\* C6: after every exit of pull_internal_progress every map of
\* pointstamps.target_pushed and pointstamps.output_pushed is empty, and
\* pointstamp_messages and pointstamp_internal are empty.
C6_BuffersCleared ==
    Pulled =>
        /\ \A c \in DOMAIN subgraph.pointstamps.target_pushed :
               \A i \in DOMAIN subgraph.pointstamps.target_pushed[c] :
                   subgraph.pointstamps.target_pushed[c][i] = CountMapNew
        /\ \A o \in DOMAIN subgraph.pointstamps.output_pushed :
               subgraph.pointstamps.output_pushed[o] = CountMapNew
        /\ subgraph.pointstamp_messages = <<>>
        /\ subgraph.pointstamp_internal = <<>>

\* a pull in which a child was pushed progress and the output frontier moved
C6_Witness ==
    /\ Pulled
    /\ \E c \in DOMAIN ret.pushes : ret.pushes[c].pushed
    /\ \E o \in DOMAIN ret.internal_progress : ret.internal_progress[o] # CountMapNew

\* work is left in the subgraph
Outstanding ==
    phase = "sealed" /\ (~AllEmpty \/ \E c \in DOMAIN scopes : Pending(scopes[c]))

\* C4: in an acyclic sealed subgraph whose children go on consuming their
\* messages and releasing their capabilities, whenever work is left the
\* repeated pulls lead to a pull that returns false with every frontier of
\* outstanding messages and of capabilities empty.
C4_QuiescenceReached ==
    (script \in AcyclicScripts /\ Outstanding)
        ~> (Pulled /\ ret.active = FALSE /\ AllEmpty)

\* the source has sent all it may, the scope behind it has consumed it, and
\* a pull has returned false with nothing left
C4_Witness ==
    /\ Pulled /\ script = 2 /\ budget.sends = 0
    /\ ret.active = FALSE /\ AllEmpty
    /\ \A c \in DOMAIN scopes : ~Pending(scopes[c])

\* `list` has, for `target`, a summary no later than `summary`
Dominated(list, target, summary) ==
    \E k \in 1..Len(list) :
        /\ list[k].target = target
        /\ \E e \in list[k].antichain : SummaryLeq(e, summary)

\* one more hop from any edge of `edges` adds nothing to `list`
Closed(list, edges) ==
    \A k \in 1..Len(edges) :
        edges[k].kind = "ScopeInput" =>
            \A j \in 0..(subgraph.children[edges[k].scope].outputs - 1) :
            \A s1 \in subgraph.children[edges[k].scope].summary[edges[k].port][j] :
            \A n \in 1..Len(subgraph.source_summaries[edges[k].scope][j]) :
            \A s2 \in subgraph.source_summaries[edges[k].scope][j][n].antichain :
                Dominated(list, subgraph.source_summaries[edges[k].scope][j][n].target,
                          FollowedBy(s1, s2))

\* C7: after set_summaries, for every child output and every edge from it,
\* every (next_target, summary) one more hop gives (the target's internal
\* summary to a scope output, followed by a summary of that output's
\* source_summaries) is already in source_summaries[scope][output]: the
\* antichain of next_target has the composed summary or an element <= it.
\* The same holds for input_summaries.
C7_SummaryFixpoint ==
    (phase \in {"summarised", "sealed"}) =>
        /\ \A c \in DOMAIN subgraph.children :
           \A output \in 0..(subgraph.children[c].outputs - 1) :
               Closed(subgraph.source_summaries[c][output], subgraph.children[c].edges[output])
        /\ \A input \in 0..(subgraph.inputs - 1) :
               Closed(subgraph.input_summaries[input], subgraph.input_edges[input])

\* the head of the chain of three has learnt, over two hops, that it reaches
\* the graph output
C7_Witness ==
    /\ phase = "summarised" /\ script = 6
    /\ subgraph.source_summaries[0][0] =
           <<[target |-> GraphOutput(0), antichain |-> {Local(2)}]>>

\* C8: the `while !done` loop of set_summaries ends on every graph, those
\* with cycles and self-loops included: once begun it leads to the round
\* that leaves `done = true`.
C8_FixpointTerminates == (phase = "fixpoint") ~> (phase = "fixed")

\* the loop has ended on the graph with a self-loop and on the graph with a
\* cycle through two scopes
C8_Witness == phase = "fixed" /\ script \in {3, 5}

\* `list` has the entry (target, antichain)
HasEntry(list, target, antichain) ==
    \E k \in 1..Len(list) : list[k] = [target |-> target, antichain |-> antichain]

OuterComponents(list, output) ==
    UNION {{IF s.tag = "Local" THEN DefaultValue ELSE s.outer : s \in list[k].antichain} :
              k \in {k \in 1..Len(list) : list[k].target = GraphOutput(output)}}

\* C10: get_internal_summary returns, for every (input, output), the
\* antichain of the outer components (Local(_) -> default, Outer(y, _) -> y)
\* of the summaries of input_summaries[input] that lead to
\* GraphOutput(output), empty when there is none; for one graph input
\* through one child with summary {default} to one graph output it is
\* {default}; and work[output] is empty when no child has an initial
\* capability.
C10_InternalSummary ==
    (ret.op = "get_internal_summary") =>
        /\ \A input \in 0..(subgraph.inputs - 1) : \A output \in 0..(subgraph.outputs - 1) :
               parent.summaries[input][output] =
                   {y \in OuterComponents(subgraph.input_summaries[input], output) :
                       \A z \in OuterComponents(subgraph.input_summaries[input], output) : y <= z}
        /\ script = 1 => parent.summaries[0][0] = {DefaultValue}
        /\ script = 4 => parent.summaries[0][0] = {}
        /\ (\A c \in DOMAIN scopes : \A o \in DOMAIN scopes[c].held :
                scopes[c].held[o] = CountMapNew)
               => \A output \in 0..(subgraph.outputs - 1) :
                      parent.capabilities[output] = CountMapNew

\* the summary of the pipeline has been returned
C10_Witness ==
    /\ ret.op = "get_internal_summary" /\ script = 1
    /\ parent.summaries = VecNew(1, VecNew(1, {DefaultValue}))
    /\ parent.capabilities = VecNew(1, CountMapNew)

\* C11: followed_by is associative on all triples of Local / Outer
\* summaries, and Local(default) is a left and a right identity.
C11_FollowedByAssociative ==
    ret.op = "followed_by" =>
        /\ ret.ab_c = ret.a_bc
        /\ ret.default_a = ret.a
        /\ ret.a_default = ret.a

\* an Outer followed by a Local with iterations followed by an Outer
C11_Witness ==
    /\ ret.op = "followed_by"
    /\ ret.a = Outer(1, 1) /\ ret.b = Local(2) /\ ret.c = Outer(1, 0)
    /\ ret.ab_c = Outer(2, 0)

\* C12: for all summaries a, b and every time t of the product order,
\* results_in(followed_by(a, b), t) = results_in(b, results_in(a, t)), in
\* each of the four Local / Outer combinations.
C12_ResultsInComposes ==
    ret.op = "results_in" => ret.composed = ret.stepwise

\* two Outer summaries with iterations, on a time with an inner coordinate
C12_Witness ==
    /\ ret.op = "results_in"
    /\ ret.a = Outer(1, 2) /\ ret.b = Outer(1, 1) /\ ret.t = <<0, 1>>
    /\ ret.composed = <<2, 1>>

\* the summaries of `list` that lead to `target`
SummariesTo(list, target) ==
    UNION {list[k].antichain : k \in {k \in 1..Len(list) : list[k].target = target}}

\* C13: after set_external_summary has stored a non-empty
\* external_summaries[o][i] and recomputed the tables, they include the
\* loops through the parent: for every child output that reaches
\* GraphOutput(o) and every target T reachable from GraphInput(i),
\* source_summaries of that output has, for T, the composed Outer(y, .)
\* summary (y in external_summaries[o][i]) or one no later, and the summaries
\* handed to each child have it when T is an input of that child.
C13_ExternalLoopsIncluded ==
    (phase = "sealed" /\ ~panicked) =>
        \A o \in 0..(subgraph.outputs - 1) : \A i \in 0..(subgraph.inputs - 1) :
        \A y \in subgraph.external_summaries[o][i] :
        \A c \in DOMAIN subgraph.children :
        \A output \in 0..(subgraph.children[c].outputs - 1) :
        \A s1 \in SummariesTo(subgraph.source_summaries[c][output], GraphOutput(o)) :
        \A n \in 1..Len(subgraph.input_summaries[i]) :
        \A s2 \in subgraph.input_summaries[i][n].antichain :
            /\ Dominated(subgraph.source_summaries[c][output],
                         subgraph.input_summaries[i][n].target,
                         FollowedBy(FollowedBy(s1, Outer(y, DefaultValue)), s2))
            /\ \A input \in 0..(subgraph.children[c].inputs - 1) :
                   subgraph.input_summaries[i][n].target = ScopeInput(c, input) =>
                       \E e \in scopes[c].external[output][input] :
                           SummaryLeq(e, FollowedBy(FollowedBy(s1, Outer(y, DefaultValue)), s2))

\* the keys (scope, port, time) of the entries of a log
KeysOf(log) == {<<log[k][1], log[k][2], log[k][3]>> : k \in 1..Len(log)}

\* the sum of the deltas a log holds for a key
DeltaOf(log, key) ==
    FoldSeq(LAMBDA acc, e : IF <<e[1], e[2], e[3]>> = key THEN acc + e[4] ELSE acc, 0, log)

\* the entries a log holds for a key
EntriesOf(log, key) == {k \in 1..Len(log) : <<log[k][1], log[k][2], log[k][3]>> = key}

\* what all workers together contributed for a key of the messages log,
\* and of the internal log
MessagesContributed(batches, key) ==
    FoldSet(LAMBDA acc, v : acc + DeltaOf(batches[v].messages, key), 0, Workers)

InternalContributed(batches, key) ==
    FoldSet(LAMBDA acc, v : acc + DeltaOf(batches[v].internal, key), 0, Workers)

\* the count a worker's subgraph holds for a key
MessageCount(g, key) ==
    CountMapGet(g.children[key[1]].outstanding_messages[key[2]].occurrences, key[3])

CapabilityCount(g, key) ==
    CountMapGet(g.children[key[1]].capabilities[key[2]].occurrences, key[3])

\* worker w comes back from send_and_recv in this step
Received(w) == Arrived(w) /\ phase'[w] = "sealed"

\* C14: broadcast conservation. Whenever a worker comes back from
\* send_and_recv, for every key (scope, port, time) that any worker
\* contributed to, the count of the antichain of that key changes by the sum
\* of the deltas of all workers, the log it absorbs holds that sum in one
\* entry, and a key whose deltas sum to 0 has no entry in the absorbed log.
C14_BroadcastConserved ==
    [][\A w \in Workers : Received(w) =>
         /\ \A key \in UNION {KeysOf(Batches(w)[v].messages) : v \in Workers} :
              \E sum \in {MessagesContributed(Batches(w), key)} :
                /\ MessageCount(subgraph'[w], key) = MessageCount(subgraph[w], key) + sum
                /\ sum = 0 => EntriesOf(ret'[w].pointstamp_messages, key) = {}
                /\ sum # 0 =>
                      \E k \in 1..Len(ret'[w].pointstamp_messages) :
                         /\ EntriesOf(ret'[w].pointstamp_messages, key) = {k}
                         /\ ret'[w].pointstamp_messages[k][4] = sum
         /\ \A key \in UNION {KeysOf(Batches(w)[v].internal) : v \in Workers} :
              \E sum \in {InternalContributed(Batches(w), key)} :
                /\ CapabilityCount(subgraph'[w], key) = CapabilityCount(subgraph[w], key) + sum
                /\ sum = 0 => EntriesOf(ret'[w].pointstamp_internal, key) = {}
                /\ sum # 0 =>
                      \E k \in 1..Len(ret'[w].pointstamp_internal) :
                         /\ EntriesOf(ret'[w].pointstamp_internal, key) = {k}
                         /\ ret'[w].pointstamp_internal[k][4] = sum
      ]_vars

\* in one tick worker 0 contributed +3 and worker 1 contributed -1 for the
\* messages at input 0 of scope 0, time (0, 0): both workers absorbed +2
C14_Witness ==
    \A w \in Workers :
        /\ ret[w].op = "pull_internal_progress" /\ ~panicked
        /\ ret[w].batches[0].messages = << <<0, 0, <<0, 0>>, 3>> >>
        /\ ret[w].batches[1].messages = << <<0, 0, <<0, 0>>, -1>> >>
        /\ ret[w].pointstamp_messages = << <<0, 0, <<0, 0>>, 2>> >>
        /\ MessageCount(subgraph[w], <<0, 0, <<0, 0>>>>) >= 2

\* every way pull_internal_progress of worker w may go on from send_and_recv:
\* the batches in any order, the compacted logs drained in any order
AbsorbedInAnyOrder(w) ==
    UNION {UNION {{Absorbed(w, messages, internal) :
                      messages \in Orders(Compact(logs.messages)),
                      internal \in Orders(Compact(logs.internal))} :
                  logs \in {SendAndRecvAmong(Batches(w), order)}} :
           order \in Orders(SetToSeq(Workers))}

\* C15: the state a worker reaches by absorbing the logs of a tick does not
\* depend on the order of the entries: whenever a worker comes back from
\* send_and_recv, every other order of the batches and of the compacted
\* entries would have left the same subgraph (outstanding_messages,
\* capabilities and guarantees of every child), told the children the same
\* and reported the same internal_progress and the same answer.
C15_OrderIndependent ==
    [][\A w \in Workers : Received(w) =>
         \A r \in AbsorbedInAnyOrder(w) :
             /\ r.g = subgraph'[w]
             /\ Told(scopes[w], r.pushes) = scopes'[w]
             /\ r.internal_progress = ret'[w].internal_progress
             /\ r.active = ret'[w].active
             /\ r.fatal = panicked'
      ]_vars

\* a worker has absorbed a tick to which both workers contributed and whose
\* compacted internal log held two entries for one output, which can be
\* drained in two orders
C15_Witness ==
    \E w \in Workers :
        /\ ret[w].op = "pull_internal_progress" /\ ~panicked
        /\ \A v \in Workers :
               ret[w].batches[v].messages \o ret[w].batches[v].internal # <<>>
        /\ \E j, k \in 1..Len(ret[w].pointstamp_internal) :
               /\ j # k
               /\ ret[w].pointstamp_internal[j][1] = ret[w].pointstamp_internal[k][1]
               /\ ret[w].pointstamp_internal[j][2] = ret[w].pointstamp_internal[k][2]

\* the inputs and outputs of children whose frontier of outstanding_messages,
\* or of capabilities, is not the same after this step
MovedTargets ==
    {x \in UNION {{<<c, i>> : i \in DOMAIN subgraph.children[c].outstanding_messages} :
                     c \in DOMAIN subgraph.children} :
        Elements(subgraph.children[x[1]].outstanding_messages[x[2]])
            # Elements(subgraph'.children[x[1]].outstanding_messages[x[2]])}

MovedSources ==
    {x \in UNION {{<<c, o>> : o \in DOMAIN subgraph.children[c].capabilities} :
                     c \in DOMAIN subgraph.children} :
        Elements(subgraph.children[x[1]].capabilities[x[2]])
            # Elements(subgraph'.children[x[1]].capabilities[x[2]])}

\* some frontier that moved in this step has a summary to `target`
MovementReaches(target) ==
    \/ \E x \in MovedTargets : SummariesTo(subgraph.target_summaries[x[1]][x[2]], target) # {}
    \/ \E x \in MovedSources : SummariesTo(subgraph.source_summaries[x[1]][x[2]], target) # {}

\* C16: only frontier movements are propagated. In a pull_internal_progress,
\* something reaches target_pushed or output_pushed, a child is told a change
\* of the guarantee of one of its inputs, and the parent is reported an
\* internal_progress on an output, only if the frontier
\* of some outstanding_messages or capabilities moved and has a summary to
\* that input or output; a delta absorbed behind the frontier (times {2, 5}
\* held and 5 removed) leaves nothing in the pushed buffers, reaches no child
\* and is not reported.
C16_OnlyFrontierMovements ==
    [][(Running /\ ret'.op = "pull_internal_progress") =>
         /\ \A c \in DOMAIN ret'.pushes : \A i \in DOMAIN ret'.pushes[c].changes :
                ret'.pushes[c].changes[i] # CountMapNew => MovementReaches(ScopeInput(c, i))
         /\ \A c \in DOMAIN ret'.pushes :
                ret'.pushes[c].pushed => \E i \in DOMAIN ret'.pushes[c].changes :
                                            ret'.pushes[c].changes[i] # CountMapNew
         /\ \A o \in DOMAIN ret'.internal_progress :
                ret'.internal_progress[o] # CountMapNew => MovementReaches(GraphOutput(o))
         /\ \A c \in DOMAIN ret'.target_pushed : \A i \in DOMAIN ret'.target_pushed[c] :
                ret'.target_pushed[c][i] # CountMapNew => MovementReaches(ScopeInput(c, i))
         /\ \A o \in DOMAIN ret'.output_pushed :
                ret'.output_pushed[o] # CountMapNew => MovementReaches(GraphOutput(o))
         /\ subgraph'.pointstamps = ClearPushed(subgraph'.pointstamps)
         /\ \A c \in DOMAIN subgraph'.pointstamps.target_counts :
                /\ \A i \in DOMAIN subgraph'.pointstamps.target_counts[c] :
                       subgraph'.pointstamps.target_counts[c][i] = CountMapNew
                /\ \A o \in DOMAIN subgraph'.pointstamps.source_counts[c] :
                       subgraph'.pointstamps.source_counts[c][o] = CountMapNew
      ]_vars

\* the last pull absorbed a single entry, the drop of a capability at a time
\* behind the frontier of its output: an earlier time is still held
C16_Witness ==
    /\ Pulled
    /\ ret.pointstamp_messages = <<>>
    /\ Len(ret.pointstamp_internal) = 1
    /\ \E e \in {ret.pointstamp_internal[1]} :
          /\ e[4] < 0
          /\ \E u \in Elements(subgraph.children[e[1]].capabilities[e[2]]) :
                 TimeLeq(u, e[3]) /\ u # e[3]
    /\ \A c \in DOMAIN ret.pushes : ~ret.pushes[c].pushed
    /\ \A o \in DOMAIN ret.internal_progress : ret.internal_progress[o] = CountMapNew
    /\ \A c \in DOMAIN ret.target_pushed : \A i \in DOMAIN ret.target_pushed[c] :
           ret.target_pushed[c][i] = CountMapNew
    /\ \A o \in DOMAIN ret.output_pushed : ret.output_pushed[o] = CountMapNew

\* C17: cancellation. (t, +1) and then (t, -1) applied to a MutableAntichain
\* of the subgraph (outstanding_messages, capabilities, guarantees,
\* external_capability), in one call or in two successive calls, leave its
\* frontier as it was, and the frontier changes the two updates emit sum to
\* zero for every time.
C17_Cancellation ==
    ret.op = "lowered" =>
        /\ ~panicked
        /\ FrontierOf(subgraph, ret.kind) = ret.before
        /\ ret.emitted = CountMapNew

\* (t, +1) moved the frontier of an outstanding_messages that held other
\* times, and (t, -1), in the next call, moved it back
C17_Witness ==
    /\ ret.op = "lowered" /\ ~ret.same_call
    /\ ret.kind = "outstanding_messages"
    /\ ret.before # {} /\ ret.between # ret.before
    /\ FrontierOf(subgraph, ret.kind) = ret.before

\* no element of the frontier is below another, and each is held with a
\* positive count
ExposesAntichain(Leq(_, _), frontier, ma) ==
    /\ \A x \in frontier : \A y \in frontier : Leq(x, y) => x = y
    /\ \A x \in frontier : CountMapGet(ma.occurrences, x) > 0

C19_SealedOnceBeforeProgress ==
    \A c \in DOMAIN scopes :
        /\ scopes[c].calls.get_internal_summary = 1
        /\ scopes[c].calls.set_external_summary = (IF phase = "sealed" THEN 1 ELSE 0)
        /\ ~scopes[c].calls.early

\* a child that does not ask for notifications has been pulled, after one
\* get_internal_summary and one set_external_summary
C19_Witness ==
    /\ Pulled
    /\ \E c \in DOMAIN scopes :
          /\ ~subgraph.children[c].notify
          /\ scopes[c].calls = [get_internal_summary |-> 1, set_external_summary |-> 1,
                                early |-> FALSE]

\* a target that names a scope and an input port, or a graph output, that
\* exists in g
TargetExists(g, target) ==
    IF target.kind = "GraphOutput"
    THEN target.port < g.outputs
    ELSE /\ target.scope < VecLen(g.children)
         /\ target.port < g.children[target.scope].inputs

\* C20: an edge that names a scope, a port, a graph input or a graph output
\* that does not exist ends the program at connect or while sealing: once
\* get_internal_summary has returned, every edge the subgraph holds leaves a
\* graph input that new_input created or an output of a scope, and leads to
\* an input of a scope or to a graph output that exists
C20_BadEdgesFatal ==
    phase # "building" =>
        /\ \A input \in DOMAIN subgraph.input_edges :
               \A k \in 1..Len(subgraph.input_edges[input]) :
                   /\ input < subgraph.inputs
                   /\ TargetExists(subgraph, subgraph.input_edges[input][k])
        /\ \A scope \in DOMAIN subgraph.children :
               \A output \in DOMAIN subgraph.children[scope].edges :
                   /\ output < subgraph.children[scope].outputs
                   /\ \A k \in 1..Len(subgraph.children[scope].edges[output]) :
                          TargetExists(subgraph, subgraph.children[scope].edges[output][k])

\* C21: pull_internal_progress on a subgraph that get_internal_summary has
\* not sealed ends fatally whatever the subgraph holds: while the graph is
\* being built, a pull is never the last call to have returned
C21_UnsealedPullFatal ==
    (phase = "building" /\ ret.op = "pull_internal_progress") => panicked

\* the count the antichain `ma` holds for time t
Occurrences(ma, t) == IF t \in DOMAIN ma.occurrences THEN ma.occurrences[t] ELSE 0

\* no antichain of outstanding messages or of capabilities holds a negative
\* count
NoNegativeCount ==
    \A c \in DOMAIN subgraph.children :
        /\ \A input \in DOMAIN subgraph.children[c].outstanding_messages :
               \A t \in DOMAIN subgraph.children[c].outstanding_messages[input].occurrences :
                   subgraph.children[c].outstanding_messages[input].occurrences[t] >= 0
        /\ \A output \in DOMAIN subgraph.children[c].capabilities :
               \A t \in DOMAIN subgraph.children[c].capabilities[output].occurrences :
                   subgraph.children[c].capabilities[output].occurrences[t] >= 0

\* an entry of the compacted logs just absorbed would have driven a count of
\* the state before the call below zero
Inconsistent ==
    \/ \E k \in 1..Len(ret'.pointstamp_messages) :
           \E e \in {ret'.pointstamp_messages[k]} :
               Occurrences(subgraph.children[e[1]].outstanding_messages[e[2]], e[3]) + e[4] < 0
    \/ \E k \in 1..Len(ret'.pointstamp_internal) :
           \E e \in {ret'.pointstamp_internal[k]} :
               Occurrences(subgraph.children[e[1]].capabilities[e[2]], e[3]) + e[4] < 0

\* the call told no child anything and reported nothing to the parent
NothingPassedOn ==
    /\ \A c \in DOMAIN ret'.pushes : ~ret'.pushes[c].pushed
    /\ \A c \in DOMAIN scopes : scopes'[c].told = scopes[c].told
    /\ \A output \in DOMAIN ret'.internal_progress :
           ret'.internal_progress[output] = CountMapNew
    /\ parent' = parent

\* C22: a pull whose logs hold an update that would drive a count of
\* outstanding_messages or of capabilities below zero ends in a fatal error
\* in the absorption: no antichain ever holds a negative count, and the call
\* that failed pushed no frontier change to a child and reported none to the
\* parent
C22_InconsistencyFatal ==
    [][ /\ NoNegativeCount'
        /\ ret'.op = "pull_internal_progress" =>
              /\ Inconsistent => panicked'
              /\ panicked' => NothingPassedOn ]_vars

\* an inconsistent pull has ended fatally, behind children that were pulled
C22_Witness ==
    /\ panicked
    /\ ret.op = "pull_internal_progress"
    /\ \E k \in 1..Len(ret.pointstamp_internal) : ret.pointstamp_internal[k][4] < 0
    /\ ret.pushes = <<>>
    /\ NoNegativeCount

\* the edges, the children and the summary tables of g
Structure(g) ==
    [input_edges      |-> g.input_edges,
     edges            |-> [c \in DOMAIN g.children |-> g.children[c].edges],
     children         |-> [c \in DOMAIN g.children |->
                              <<g.children[c].scope, g.children[c].index,
                                g.children[c].inputs, g.children[c].outputs>>],
     source_summaries |-> g.source_summaries,
     target_summaries |-> g.target_summaries,
     input_summaries  |-> g.input_summaries]

\* C23 as it is stated: a sealed subgraph accepts push_external_progress and
\* pull_internal_progress only, so no step changes its edges, its children
\* or its summary tables
C23_SealedAcceptsProgressOnly ==
    [][phase = "sealed" => Structure(subgraph') = Structure(subgraph)]_vars

\* C23, amended: the builder calls of a program that keeps to the lifecycle
\* all come before get_internal_summary, and push_external_progress and
\* pull_internal_progress (and the arrival of a message at a graph input)
\* change neither the edges, the children nor the summary tables; the
\* subgraph itself does not refuse a connect after sealing, which adds the
\* edge and leaves the summary tables as they were sealed
C23_ProgressKeepsStructure ==
    [][ /\ (phase = "sealed" /\ ret'.op # "connect") =>
               Structure(subgraph') = Structure(subgraph)
        /\ (phase = "sealed" /\ ret'.op = "connect") =>
               /\ EdgeCount(subgraph') = EdgeCount(subgraph) + 1
               /\ subgraph'.source_summaries = subgraph.source_summaries
               /\ subgraph'.target_summaries = subgraph.target_summaries
               /\ subgraph'.input_summaries = subgraph.input_summaries
        /\ ret'.op \in {"new_input", "new_output", "add_boxed_scope"} =>
               phase = "building" ]_vars

\* a sealed subgraph that has been pushed a frontier and pulled, still with
\* the edges and the tables it was sealed with
C23_Witness ==
    /\ phase = "sealed"
    /\ ret.op = "pull_internal_progress"
    /\ parent.frontier # <<>>
    /\ \E input \in DOMAIN parent.frontier :
           parent.frontier[input] # One(DefaultValue)
    /\ EdgeCount(subgraph) = ConnectCalls(script)
    /\ \E c \in DOMAIN subgraph.source_summaries :
           \E output \in DOMAIN subgraph.source_summaries[c] :
               subgraph.source_summaries[c][output] # <<>>

\* C24: the ingress hands on every open and shut at (t_outer, default) and
\* every datum as it is; the egress hands on every open and shut at the outer
\* coordinate of its time, whatever the inner one, and every datum as it is;
\* so what leaves the egress is, event for event and in order, what entered
\* the ingress
C24_BoundaryRoundTrip ==
    /\ phase = "boundary"
    /\ Len(scopes.inner) = Len(scopes.sent)
    /\ \A k \in 1..Len(scopes.sent) :
           /\ scopes.inner[k].kind = scopes.sent[k].kind
           /\ IF scopes.sent[k].kind = "push"
              THEN scopes.inner[k].data = scopes.sent[k].data
              ELSE scopes.inner[k].time = <<scopes.sent[k].time, DefaultValue>>
    /\ Len(scopes.outer) = Len(scopes.fed)
    /\ \A k \in 1..Len(scopes.fed) :
           /\ scopes.outer[k].kind = scopes.fed[k].kind
           /\ IF scopes.fed[k].kind = "push"
              THEN scopes.outer[k].data = scopes.fed[k].data
              ELSE scopes.outer[k].time = scopes.fed[k].time[1]
    /\ Len(scopes.outer) <= Len(scopes.sent)
    /\ \A k \in 1..Len(scopes.outer) : scopes.outer[k] = scopes.sent[k]

\* a frame opened at outer time 1 has crossed the subgraph at an inner
\* coordinate other than the default, with two different data items, and
\* has been shut
C24_Witness ==
    /\ phase = "boundary"
    /\ Len(scopes.outer) = MaxEvents
    /\ scopes.outer[1] = [kind |-> "open", time |-> 1]
    /\ scopes.fed[1].time[2] # DefaultValue
    /\ scopes.outer[2].kind = "push" /\ scopes.outer[3].kind = "push"
    /\ scopes.outer[2].data # scopes.outer[3].data
    /\ scopes.outer[MaxEvents] = [kind |-> "shut", time |-> 1]

\* some guarantee of child c has another frontier after the step
GuaranteeMoved(c) ==
    \E input \in DOMAIN subgraph.children[c].guarantees :
        Elements(subgraph'.children[c].guarantees[input]) #
            Elements(subgraph.children[c].guarantees[input])

\* C25: in every push_external_progress and pull_internal_progress of the
\* subgraph, a child that does not ask for notifications is not called and
\* keeps the guarantees it was created with; a child that asks is called
\* exactly when the frontier of one of its guarantees has changed, which is
\* when some map of guarantee_changes handed to it is not empty; and every
\* guarantee_changes is empty when the call returns
C25_PushedIffGuaranteeMoved ==
    [][ (ret'.op \in {"push_external_progress", "pull_internal_progress"} /\ ~panicked') =>
            \A c \in DOMAIN subgraph.children :
                /\ ~subgraph.children[c].notify =>
                       /\ ~ret'.pushes[c].pushed
                       /\ subgraph'.children[c].guarantees = subgraph.children[c].guarantees
                       /\ \A input \in DOMAIN subgraph.children[c].guarantees :
                              subgraph.children[c].guarantees[input] = MutableAntichainNew
                       /\ scopes'[c].told = scopes[c].told
                /\ subgraph.children[c].notify =>
                       /\ ret'.pushes[c].pushed <=> GuaranteeMoved(c)
                       /\ ret'.pushes[c].pushed <=>
                              \E input \in DOMAIN ret'.pushes[c].changes :
                                  ret'.pushes[c].changes[input] # CountMapNew
                       /\ ret'.pushes[c].pushed =>
                              scopes'[c].told # scopes[c].told
                /\ \A input \in DOMAIN subgraph'.children[c].guarantee_changes :
                       subgraph'.children[c].guarantee_changes[input] = CountMapNew ]_vars

\* one pull in which a child that asks for notifications was pushed a moved
\* guarantee while a child that does not ask was left alone
C25_Witness ==
    /\ Pulled
    /\ \E c, d \in DOMAIN subgraph.children :
           /\ subgraph.children[c].notify
           /\ ret.pushes[c].pushed
           /\ ret.pushes[c].changes[0] # CountMapNew
           /\ ~subgraph.children[d].notify
           /\ subgraph.children[d].inputs > 0
           /\ ~ret.pushes[d].pushed

\* how many edges of the child's output lead to the target
EdgesTo(child, output, target) ==
    Cardinality({k \in DOMAIN child.edges[output] : child.edges[output][k] = target})

\* how often the entry e = (scope, port, time, delta) is due in the message
\* log: once per edge to ScopeInput(scope, port) of every output that
\* reported (time, delta) produced, and once if the child reported
\* (time, -delta) consumed on that input
MessageDue(child, report, e) ==
    FoldRange(LAMBDA n, output :
                  IF /\ e[3] \in DOMAIN report.produced_messages[output]
                     /\ report.produced_messages[output][e[3]] = e[4]
                  THEN n + EdgesTo(child, output, ScopeInput(e[1], e[2]))
                  ELSE n,
              0, 0, child.outputs)
    + (IF /\ e[1] = child.index
          /\ e[2] \in 0..(child.inputs - 1)
          /\ e[3] \in DOMAIN report.consumed_messages[e[2]]
          /\ e[4] = -report.consumed_messages[e[2]][e[3]]
       THEN 1 ELSE 0)

\* the entries due in the message log
MessagesDue(child, report) ==
    UNION {{<<child.edges[output][k].scope, child.edges[output][k].port, time,
              report.produced_messages[output][time]>> :
                k \in {j \in DOMAIN child.edges[output] :
                          child.edges[output][j].kind = "ScopeInput"}} :
           <<output, time>> \in {p \in (0..(child.outputs - 1)) \X Times :
                                    p[2] \in DOMAIN report.produced_messages[p[1]]}}
    \cup {<<child.index, input, time, -report.consumed_messages[input][time]>> :
           <<input, time>> \in {p \in (0..(child.inputs - 1)) \X Times :
                                   p[2] \in DOMAIN report.consumed_messages[p[1]]}}

\* the entries due in the internal log
InternalDue(child, report) ==
    {<<child.index, output, time, report.internal_progress[output][time]>> :
       <<output, time>> \in {p \in (0..(child.outputs - 1)) \X Times :
                                p[2] \in DOMAIN report.internal_progress[p[1]]}}

\* what the output callback is due to have added on graph output `out` at
\* the outer time t
CallbackDue(child, report, out, t) ==
    FoldRange(LAMBDA n, output :
                  FoldSet(LAMBDA m, time :
                              IF OuterOf(time) = t
                              THEN m + report.produced_messages[output][time]
                                       * EdgesTo(child, output, GraphOutput(out))
                              ELSE m,
                          n, DOMAIN report.produced_messages[output]),
              0, 0, child.outputs)

\* the entries of the log
LogEntries(log) == {log[k] : k \in DOMAIN log}

\* how often e is in the log
LogCount(log, e) == Cardinality({k \in DOMAIN log : log[k] = e})

\* C26: pull_pointstamps puts every produced (time, delta) once per edge of
\* its output, in the message log for a ScopeInput edge and through the
\* output callback for a GraphOutput edge, every consumed (time, delta) in
\* the message log as (index, input, time, -delta) and every internal
\* progress entry in the internal log under the child's index, and nothing
\* else; the three buffers of the child are empty afterwards and the flag
\* of the child's scope is returned as it is.
C26_PullPointstampsRouting ==
    ret.op = "pull_pointstamps" =>
        LET child == subgraph.children[step]
            report == ret.report
        IN  /\ \A e \in LogEntries(ret.messages) \cup MessagesDue(child, report) :
                   LogCount(ret.messages, e) = MessageDue(child, report, e)
            /\ LogEntries(ret.internal) = InternalDue(child, report)
            /\ \A e \in LogEntries(ret.internal) : LogCount(ret.internal, e) = 1
            /\ \A out \in 0..(subgraph.outputs - 1) : \A t \in 0..MaxCoord :
                   (IF t \in DOMAIN ret.produced[out] THEN ret.produced[out][t] ELSE 0)
                       = CallbackDue(child, report, out, t)
            /\ \A output \in 0..(child.outputs - 1) :
                   /\ child.produced_messages[output] = CountMapNew
                   /\ child.internal_progress[output] = CountMapNew
            /\ \A input \in 0..(child.inputs - 1) :
                   child.consumed_messages[input] = CountMapNew
            /\ ret.active = report.active

\* C26 witness: a call on a child whose output has an edge to a scope input
\* and an edge to a graph output, with two produced entries on that output,
\* consumed messages and internal progress reported, and the flag set.
C26_Witness ==
    /\ ret.op = "pull_pointstamps"
    /\ \E output \in 0..(subgraph.children[step].outputs - 1) :
         /\ \E k \in DOMAIN subgraph.children[step].edges[output] :
                subgraph.children[step].edges[output][k].kind = "ScopeInput"
         /\ \E k \in DOMAIN subgraph.children[step].edges[output] :
                subgraph.children[step].edges[output][k].kind = "GraphOutput"
         /\ Cardinality(DOMAIN ret.report.produced_messages[output]) = 2
         /\ ret.report.internal_progress[output] # CountMapNew
    /\ \E input \in 0..(subgraph.children[step].inputs - 1) :
           ret.report.consumed_messages[input] # CountMapNew
    /\ ret.active
    /\ Len(ret.messages) >= 3

\* how many edges of the graph input lead to the target
InputEdgesTo(g, input, target) ==
    Cardinality({k \in DOMAIN g.input_edges[input] : g.input_edges[input][k] = target})

\* what was drained from the counter of the input at the outer time t
DrainedAt(counts, input, t) ==
    FoldSet(LAMBDA n, time : IF OuterOf(time) = t THEN n + counts[input][time] ELSE n,
            0, DOMAIN counts[input])

\* C27: step 1 of pull_internal_progress reports every (time, delta) drained
\* from input_messages[input] as consumed on that input at the outer time,
\* and for every edge of that input either adds it to the message log for
\* the ScopeInput target at the full time or reports it as produced on the
\* graph output at the outer time; the shared counter is empty afterwards.
C27_Step1Drains ==
    ret.op = "step 1" =>
        /\ \A input \in 0..(subgraph.inputs - 1) : \A t \in 0..MaxCoord :
               CountMapGet(ret.consumed[input], t) = DrainedAt(ret.counts, input, t)
        /\ \A e \in LogEntries(ret.messages)
                    \cup {<<target.scope, target.port, p[2], ret.counts[p[1]][p[2]]>> :
                            <<target, p>> \in {q \in (UNION {LogEntries(subgraph.input_edges[input]) :
                                                              input \in 0..(subgraph.inputs - 1)})
                                                     \X ((0..(subgraph.inputs - 1)) \X Times) :
                                                 /\ q[1].kind = "ScopeInput"
                                                 /\ q[2][2] \in DOMAIN ret.counts[q[2][1]]
                                                 /\ InputEdgesTo(subgraph, q[2][1], q[1]) > 0}} :
               LogCount(ret.messages, e) =
                   FoldRange(LAMBDA n, input :
                                 IF /\ e[3] \in DOMAIN ret.counts[input]
                                    /\ ret.counts[input][e[3]] = e[4]
                                 THEN n + InputEdgesTo(subgraph, input, ScopeInput(e[1], e[2]))
                                 ELSE n,
                             0, 0, subgraph.inputs)
        /\ \A out \in 0..(subgraph.outputs - 1) : \A t \in 0..MaxCoord :
               CountMapGet(ret.produced[out], t) =
                   FoldRange(LAMBDA n, input :
                                 n + DrainedAt(ret.counts, input, t)
                                       * InputEdgesTo(subgraph, input, GraphOutput(out)),
                             0, 0, subgraph.inputs)
        /\ \A input \in 0..(subgraph.inputs - 1) :
               subgraph.input_messages[input] = CountMapNew

\* C27 witness: the step has drained two entries from the counter of an
\* input that has an edge to a scope input and an edge to a graph output.
C27_Witness ==
    /\ ret.op = "step 1"
    /\ \E input \in 0..(subgraph.inputs - 1) :
         /\ Cardinality(DOMAIN ret.counts[input]) >= 2
         /\ \E k \in DOMAIN subgraph.input_edges[input] :
                subgraph.input_edges[input][k].kind = "ScopeInput"
         /\ \E k \in DOMAIN subgraph.input_edges[input] :
                subgraph.input_edges[input][k].kind = "GraphOutput"
         /\ ret.messages # <<>>
         /\ \E out \in 0..(subgraph.outputs - 1) : ret.produced[out] # CountMapNew

\* C28: output-frontier changes reach the parent only through the
\* internal_progress of pull_internal_progress. A set_external_summary or a
\* push_external_progress changes no external_capability, changes nothing
\* of what the parent has been reported, and leaves output_pushed empty
\* whatever the graph-input pointstamps put there; once the summary is
\* returned, the frontier of an external_capability moves only in a
\* pull_internal_progress, and then by exactly the internal_progress that
\* the pull reports on that output.
C28_OutputChangesOnlyByPull ==
    [][/\ ret'.op \in {"set_external_summary", "push_external_progress"} =>
            /\ subgraph'.external_capability = subgraph.external_capability
            /\ parent'.capabilities = parent.capabilities
            /\ \A output \in DOMAIN subgraph'.pointstamps.output_pushed :
                   subgraph'.pointstamps.output_pushed[output] = CountMapNew
       /\ phase \in {"summarised", "sealed"} =>
            \A output \in DOMAIN subgraph.external_capability :
                LET change == FrontierChange(OuterElements(subgraph.external_capability[output]),
                                             OuterElements(subgraph'.external_capability[output]))
                IN  /\ change # CountMapNew => ret'.op = "pull_internal_progress"
                    /\ (ret'.op = "pull_internal_progress" /\ ~panicked') =>
                           /\ ret'.internal_progress[output] = change
                           /\ parent'.capabilities[output] =
                                  CountMapAdd(parent.capabilities[output], change)
      ]_vars

\* C28 witness: a push_external_progress in which the movement of a graph
\* input's frontier reached output_pushed of a graph output and was cleared
\* away.
C28_Witness ==
    /\ ret.op = "push_external_progress"
    /\ \E output \in DOMAIN ret.output_pushed :
         /\ ret.output_pushed[output] # CountMapNew
         /\ subgraph.pointstamps.output_pushed[output] = CountMapNew

\* the child input is one of a child that does not ask for notifications
Unnotified(g, target) ==
    target.kind = "ScopeInput" /\ ~g.children[target.scope].notify

\* the targets that the summary list holds
ListTargets(list) == {list[k].target : k \in 1..Len(list)}

\* what lies behind the target is among the targets of the list
ReachesBehind(g, list, target) ==
    \A k \in DOMAIN TargetToSources(g, target) :
        LET source == TargetToSources(g, target)[k][1]
        IN  source.kind = "ScopeOutput" =>
                ListTargets(g.source_summaries[source.scope][source.port])
                    \subseteq ListTargets(list)

\* C29: after set_summaries no entry of source_summaries or input_summaries
\* has as its target an input of a child with notify = false, while every
\* edge into such a child is followed to what lies behind it; in
\* target_summaries such an input is a target only in its own list, as the
\* direct link with the default summary.
C29_NoUnnotifiedTargets ==
    (phase \in {"summarised", "sealed"} /\ ~panicked) =>
        /\ \A scope \in DOMAIN subgraph.children :
           \A output \in 0..(subgraph.children[scope].outputs - 1) :
               /\ \A target \in ListTargets(subgraph.source_summaries[scope][output]) :
                      ~Unnotified(subgraph, target)
               /\ \A k \in DOMAIN subgraph.children[scope].edges[output] :
                      ReachesBehind(subgraph, subgraph.source_summaries[scope][output],
                                    subgraph.children[scope].edges[output][k])
        /\ \A input \in 0..(subgraph.inputs - 1) :
               /\ \A target \in ListTargets(subgraph.input_summaries[input]) :
                      ~Unnotified(subgraph, target)
               /\ \A k \in DOMAIN subgraph.input_edges[input] :
                      ReachesBehind(subgraph, subgraph.input_summaries[input],
                                    subgraph.input_edges[input][k])
        /\ \A scope \in DOMAIN subgraph.children :
           \A input \in 0..(subgraph.children[scope].inputs - 1) :
           \A target \in ListTargets(subgraph.target_summaries[scope][input]) :
               Unnotified(subgraph, target) =>
                   /\ target = ScopeInput(scope, input)
                   /\ SummariesTo(subgraph.target_summaries[scope][input], target)
                          = {subgraph.default_summary}

\* C29 witness: a sealed graph in which an output has an edge into a child
\* with notify = false, and its source_summaries reach a target behind that
\* child that is no edge of the output itself.
C29_Witness ==
    /\ phase = "sealed" /\ ~panicked
    /\ \E scope \in DOMAIN subgraph.children :
       \E output \in 0..(subgraph.children[scope].outputs - 1) :
         /\ \E k \in DOMAIN subgraph.children[scope].edges[output] :
                Unnotified(subgraph, subgraph.children[scope].edges[output][k])
         /\ \E target \in ListTargets(subgraph.source_summaries[scope][output]) :
                \A k \in DOMAIN subgraph.children[scope].edges[output] :
                    subgraph.children[scope].edges[output][k] # target

\* C30: the order of summaries is compatible with their action on times.
\* Whenever a <= b, a.results_in(t) <= b.results_in(t) for every time t; and
\* when adding a to a list that holds b drops b, some summary kept for the
\* target results in a time no later than b does.
C30_OrderCompatible ==
    /\ (ret.op = "partial_cmp" /\ ret.a_le_b) => TimeLeq(ret.a_t, ret.b_t)
    /\ ret.op = "try_to_add_summary" =>
           \E s \in SummariesTo(ret.vector, GraphOutput(0)) :
               TimeLeq(ResultsIn(s, ret.t), ResultsIn(ret.b, ret.t))

\* C31: the parent's view of a nested subgraph agrees with the subgraph's
\* own. From get_internal_summary on, the count the parent has accumulated
\* for an output and an outer time (the work, plus every internal_progress
\* since) is positive exactly if the time is in the frontier of
\* external_capability of that output.
C31_ParentViewConsistent ==
    (phase \in {"summarised", "sealed"} /\ ~panicked) =>
        \A output \in 0..(subgraph.outputs - 1) : \A t \in 0..(MaxCoord + 1) :
            CountMapGet(parent.capabilities[output], t) > 0
                <=> t \in OuterElements(subgraph.external_capability[output])

\* how often a pointstamp at time u lands on `target` at `time` through the
\* summaries of the list, one occurrence per entry and summary
Landings(list, target, u, time) ==
    FoldSeq(LAMBDA n, entry :
                IF entry.target = target
                THEN n + Cardinality({s \in entry.antichain : ResultsIn(s, u) = time})
                ELSE n,
            0, list)

\* the same for every element of a frontier
FrontierLandings(list, target, frontier, time) ==
    FoldSet(LAMBDA n, u : n + Landings(list, target, u, time), 0, frontier)

\* what the frontiers of all capabilities, of all outstanding messages and
\* of the graph inputs (`front`, outer times) are due to hold at `time` in
\* the guarantee of `target`
GuaranteeDue(g, front, target, time) ==
    FoldRange(LAMBDA n, scope :
                  FoldRange(LAMBDA m, output :
                                m + FrontierLandings(g.source_summaries[scope][output], target,
                                        Elements(g.children[scope].capabilities[output]), time),
                            FoldRange(LAMBDA m, input :
                                          m + FrontierLandings(g.target_summaries[scope][input], target,
                                                  Elements(g.children[scope].outstanding_messages[input]),
                                                  time),
                                      n, 0, g.children[scope].inputs),
                            0, g.children[scope].outputs),
              0, 0, VecLen(g.children))
    + FoldRange(LAMBDA n, input :
                    n + FrontierLandings(g.input_summaries[input], target,
                            {<<f, DefaultValue>> : f \in {x \in DOMAIN front[input] : front[input][x] > 0}},
                            time),
                0, 0, g.inputs)

\* C32: once the subgraph is sealed, after set_external_summary and after
\* every push_external_progress and pull_internal_progress, the guarantee of
\* every input of every child with notify = true holds, for every time,
\* one occurrence per frontier element of a capability, of an outstanding
\* message or of a graph input and per summary to that input that results
\* in the time.
C32_GuaranteesAreProjections ==
    (phase = "sealed" /\ ~panicked) =>
        \A c \in DOMAIN subgraph.children :
            subgraph.children[c].notify =>
                \A i \in 0..(subgraph.children[c].inputs - 1) :
                \A time \in DOMAIN subgraph.children[c].guarantees[i].occurrences
                            \cup ((0..(MaxCoord + 1)) \X (0..(MaxCoord + 1))) :
                    CountMapGet(subgraph.children[c].guarantees[i].occurrences, time)
                        = GuaranteeDue(subgraph, parent.frontier, ScopeInput(c, i), time)

\* C32 witness: after a pull the guarantee of an input of a notifying child
\* holds two occurrences of one time.
C32_Witness ==
    /\ phase = "sealed" /\ ~panicked
    /\ ret.op = "pull_internal_progress"
    /\ \E c \in DOMAIN subgraph.children : \E i \in 0..(subgraph.children[c].inputs - 1) :
         /\ subgraph.children[c].notify
         /\ \E time \in DOMAIN subgraph.children[c].guarantees[i].occurrences :
                subgraph.children[c].guarantees[i].occurrences[time] >= 2

\* C33: get_internal_summary completes for every subgraph built by
\* new_input, new_output, add_boxed_scope and connect between existing
\* ports, also when a graph input has no outgoing edge: input_edges has an
\* entry for every input index when set_summaries runs.
C33_SealCompletes ==
    ret.op = "get_internal_summary" =>
        /\ ~panicked
        /\ VecLen(subgraph.input_edges) >= subgraph.inputs

\* C34: the index new_subgraph stores in a subgraph is the child index the
\* subgraph gets from add_boxed_scope, whatever the parent is asked in
\* between; so the streams that leave it, named ScopeOutput(index, port),
\* name that child and no other subgraph does.
C34_IndexIsChildIndex ==
    \A k \in DOMAIN scopes :
        scopes[k].child # -1 =>
            /\ scopes[k].index = scopes[k].child
            /\ \A n \in DOMAIN scopes[k].streams : scopes[k].streams[n].scope = scopes[k].child
            /\ \A j \in DOMAIN scopes : j # k => scopes[j].index # scopes[k].child

\* how many entries of the summary list have the target
EntriesFor(list, target) == Cardinality({k \in DOMAIN list : list[k].target = target})

\* how many of the edges lead to the target
EdgesFor(edges, target) == Cardinality({k \in DOMAIN edges : edges[k] = target})

\* C35: after set_summaries every list of source_summaries, target_summaries
\* and input_summaries holds at most one entry per target, also when an
\* output or a graph input has two edges to the same target.
C35_OneEntryPerTarget ==
    (phase \in {"summarised", "sealed"} /\ ~panicked) =>
        /\ \A scope \in DOMAIN subgraph.children :
             /\ \A output \in 0..(subgraph.children[scope].outputs - 1) :
                \A target \in ListTargets(subgraph.source_summaries[scope][output]) :
                    EntriesFor(subgraph.source_summaries[scope][output], target) <= 1
             /\ \A input \in 0..(subgraph.children[scope].inputs - 1) :
                \A target \in ListTargets(subgraph.target_summaries[scope][input]) :
                    EntriesFor(subgraph.target_summaries[scope][input], target) <= 1
        /\ \A input \in 0..(subgraph.inputs - 1) :
           \A target \in ListTargets(subgraph.input_summaries[input]) :
               EntriesFor(subgraph.input_summaries[input], target) <= 1

\* the list holds one entry per edge to a target that is notified, and one
\* entry for any other target it holds
EntryPerEdge(g, list, edges) ==
    \A target \in ListTargets(list) \cup {edges[k] : k \in DOMAIN edges} :
        EntriesFor(list, target) =
            IF Unnotified(g, target) THEN 0
            ELSE IF EdgesFor(edges, target) > 0 THEN EdgesFor(edges, target)
            ELSE 1

\* C35, amended: after set_summaries every list of target_summaries holds at
\* most one entry per target; a list of source_summaries or input_summaries
\* holds, for a target its output or graph input has edges to, one entry per
\* edge, and one entry for every other target it holds.
C35_OneEntryPerEdge ==
    (phase \in {"summarised", "sealed"} /\ ~panicked) =>
        /\ \A scope \in DOMAIN subgraph.children :
             /\ \A output \in 0..(subgraph.children[scope].outputs - 1) :
                    EntryPerEdge(subgraph, subgraph.source_summaries[scope][output],
                                 subgraph.children[scope].edges[output])
             /\ \A input \in 0..(subgraph.children[scope].inputs - 1) :
                \A target \in ListTargets(subgraph.target_summaries[scope][input]) :
                    EntriesFor(subgraph.target_summaries[scope][input], target) <= 1
        /\ \A input \in 0..(subgraph.inputs - 1) :
               EntryPerEdge(subgraph, subgraph.input_summaries[input],
                            subgraph.input_edges[input])

\* C35 witness: a summarised graph in which an output with two edges to the
\* same target has two entries for it, and a list of target_summaries holds
\* a target behind such an output once.
C35_Witness ==
    /\ phase \in {"summarised", "sealed"} /\ ~panicked
    /\ \E scope \in DOMAIN subgraph.children :
       \E output \in 0..(subgraph.children[scope].outputs - 1) :
       \E target \in ListTargets(subgraph.source_summaries[scope][output]) :
         /\ EdgesFor(subgraph.children[scope].edges[output], target) = 2
         /\ EntriesFor(subgraph.source_summaries[scope][output], target) = 2

====
